---- MODULE Spec2Model ----
(***************************************************************************)
(* MYNGO card engine: card generation, win detection, near-win detection   *)
(* and call timing of src/MYNGO/MYNGO/src/utils/myngo-utils.ts, and a room *)
(* in play: the player pages of host-dashboard.tsx (PlayerGame) and        *)
(* join-game.tsx (MyngoCard), the real-time subscriptions of               *)
(* use-myngo-room.ts and the table operations of SupabaseService.          *)
(*                                                                         *)
(* Encoding of JavaScript values:                                          *)
(*   - a card is a function from a subset of {"M","Y","N","G","O"} to      *)
(*     sequences of numbers; a column that is absent from the DOMAIN is a  *)
(*     missing property; NullCard is the null card;                        *)
(*   - a grid cell is an integer: a card number (1..75), WILD for the      *)
(*     string 'WILD', Undefined for the value read past the end of an      *)
(*     array;                                                              *)
(*   - arrays are sequences; a 0-based index i of the code is i + 1 here;  *)
(*   - Math.random() is the pseudo-random generator state rng, read as     *)
(*     the fraction rng / RandModulus of [0, 1).                           *)
(*   - a number of the timing functions is a record: a finite fraction,    *)
(*     NaN or an infinity;                                                 *)
(*   - requests sent without await are a set served in any order; the      *)
(*     real-time events of one page are a queue.                           *)
(***************************************************************************)
EXTENDS Integers, Sequences, FiniteSets

VARIABLES rng, card, markedNumbers, winCheck, closeToWin

\* the host's game setup: the two sliders and the three derived timings
VARIABLES players, meetingMinutes, callFrequency, callsNeeded,
          secondsBetweenCalls

engineVars == <<rng, card, markedNumbers, winCheck, closeToWin>>

timingVars == <<players, meetingMinutes, callFrequency, callsNeeded,
                secondsBetweenCalls>>

\* one room in play: its status, the called_numbers and players tables, the requests of
\* the players' pages on their way to the tables, the real-time events on
\* their way to each page, and per player page the state of useMyngoRoom
\* (calledNumbers, roomPlayers) and of PlayerGame (currentPlayer,
\* playerMarkedNumbers, hasWon); winClicks counts each player's clicks on the
\* MYNGO button
VARIABLES roomStatus, called_numbers, playerRows, markRequests, winRequests,
          channel, calledNumbers, roomPlayers, currentPlayer, playerMarkedNumbers,
          hasWon, winClicks

gameVars == <<roomStatus, called_numbers, playerRows, markRequests,
              winRequests, channel, calledNumbers, roomPlayers, currentPlayer, playerMarkedNumbers,
              hasWon, winClicks>>

\* the host's pages: the demo checkbox of the setup form, the config column of
\* the room's row, and on the dashboard the room as useMyngoRoom holds it with
\* the isAutoMode, isPaused and countdown states of HostDashboard and its
\* auto-call interval timer (timerOn: set and not cleared)
VARIABLES demoMode, config, room, isAutoMode, isPaused, countdown, timerOn

hostVars == <<demoMode, config, room, isAutoMode, isPaused, countdown, timerOn>>

\* SupabaseService calls in progress: the players whose markPlayerAsWinner has
\* written is_winner and is at its updateRoomStatus, and the autoBotMarkNumber
\* invocations in the order of their calls
VARIABLES finishing, botRuns

serverVars == <<finishing, botRuns>>

\* a call of joinRoom: what it is given and meets, and what it does
VARIABLES joinCall, joinOutcome

joinVars == <<joinCall, joinOutcome>>

vars == <<engineVars, timingVars, gameVars, hostVars, serverVars, joinVars>>

----------------------------------------------------------------------------
(* Bounds *)

\* the marked sets a player's checks go through are unions of at most
\* GrowLines lines of the card without at most GrowMissing of their numbers
GrowLines == 2
GrowMissing == 1

\* number of distinct states (and seeds) of the random source
RandModulus == 256

\* seeds 0..MaxCardSeed generate the valid cards given to the classifiers
MaxCardSeed == 1

\* a marked input holds the numbers of at most MaxLines lines ...
MaxLines == 2

\* ... without at most MaxMissing of them ...
MaxMissing == 1

\* ... and with at most MaxExtra other numbers
MaxExtra == 1

\* the expected players given to the timing functions are -1..MaxPlayers ...
MaxPlayers == 101

\* ... and the meeting minutes 0..MaxMinutes
MaxMinutes == 91

\* the calls needed given directly to calculateSecondsBetweenCalls are
\* -1..MaxCallsArg
MaxCallsArg == 76

\* the players of the room in play
NumPlayers == 2

\* the numbers of its middle row that each player has not marked yet when
\* the room is first observed
OpenCells == 1

\* the clicks of one player on the MYNGO button
MaxWinClicks == 1

\* every set of at most MaxSmall numbers is a marked input too
MaxSmall == 3

\* a marked list holds at most MaxCopies copies of each of its numbers ...
MaxCopies == 2

\* ... each copy in ascending order started at most MaxShift numbers later,
\* or in the reverse of that order
MaxShift == 1

\* room updates on their way to the dashboard
MaxPending == 1

\* called numbers on their way to the dashboard
MaxInFlight == 2

\* the numbers the host's draws are followed for
DrawPool == {1, 2}

\* calls the host makes in the demo room
MaxDemoCalls == 2

\* the numbers the host's draws are followed for in the demo room
DemoPool == {1, 67}

\* the expected players of the room whose calls are followed
CallsExpectedPlayers == 100

----------------------------------------------------------------------------
(* JavaScript values *)

WILD == 0

Undefined == 0 - 1

NullCard == [isNull |-> TRUE]

Columns == <<"M", "Y", "N", "G", "O">>

\* array[i] of JavaScript, i 0-based: undefined past the end
At(array, i) == IF i + 1 \in DOMAIN array THEN array[i + 1] ELSE Undefined

\* new Set(array)
SetOf(array) == {array[i] : i \in DOMAIN array}

----------------------------------------------------------------------------
(* Card generation *)

\* the next state of the random source after one Math.random() call
NextRandom(s) == (5 * s + 3) % RandModulus

\* Math.floor(Math.random() * length), for the source in state s
RandomIndex(s, length) == (s * length) \div RandModulus

\* Array.from({ length: max - min + 1 }, (_, i) => min + i)
Range(min, max) == [i \in 1..(max - min + 1) |-> min + i - 1]

\* Splice that leaves the drawn number in the array
SpliceKeeps(available, index) == available

\* available.splice(index, 1), index 0-based: the array without that element
Splice(available, index) ==
    [i \in 1..(Len(available) - 1) |->
        IF i <= index THEN available[i] ELSE available[i + 1]]

RECURSIVE Insert(_, _)
Insert(x, sorted) ==
    IF sorted = <<>> THEN <<x>>
    ELSE IF x <= Head(sorted) THEN <<x>> \o sorted
    ELSE <<Head(sorted)>> \o Insert(x, Tail(sorted))

\* numbers.sort((a, b) => a - b)
RECURSIVE SortAscending(_)
SortAscending(numbers) ==
    IF numbers = <<>> THEN <<>>
    ELSE Insert(Head(numbers), SortAscending(Tail(numbers)))

\* the loop of getRandomNumbers from iteration i on
RECURSIVE DrawNumbers(_, _, _, _, _)
DrawNumbers(numbers, available, i, count, s) ==
    IF i >= count THEN [numbers |-> numbers, rng |-> s]
    ELSE LET randomIndex == RandomIndex(s, Len(available))
         IN  DrawNumbers(Append(numbers, At(available, randomIndex)),
                         Splice(available, randomIndex),
                         i + 1, count, NextRandom(s))

getRandomNumbers(min, max, count, s) ==
    LET drawn == DrawNumbers(<<>>, Range(min, max), 0, count, s)
    IN  [numbers |-> SortAscending(drawn.numbers), rng |-> drawn.rng]

generateMyngoCard(s) ==
    LET m == getRandomNumbers(1, 15, 5, s)
        y == getRandomNumbers(16, 30, 5, m.rng)
        n == getRandomNumbers(31, 45, 4, y.rng)
        g == getRandomNumbers(46, 60, 5, n.rng)
        o == getRandomNumbers(61, 75, 5, g.rng)
    IN  [card |-> [M |-> m.numbers, Y |-> y.numbers, N |-> n.numbers,
                   G |-> g.numbers, O |-> o.numbers],
         rng |-> o.rng]

----------------------------------------------------------------------------
(* Win detection *)

\* the exception raised by cardToArray
Thrown == [thrown |-> TRUE]

\* !card || !card.M || !card.Y || !card.N || !card.G || !card.O
InvalidStructure(c) ==
    c = NullCard \/ \E k \in DOMAIN Columns : Columns[k] \notin DOMAIN c

\* ArrayCell that indexes N by the row and stores no WILD cell
ArrayCellNoWild(c, row, col) == At(c[Columns[col + 1]], row)

\* ArrayCell that reads card.N[row] in every row but the middle one
ArrayCellNoShift(c, row, col) ==
    IF col = 2
    THEN IF row = 2 THEN WILD
         ELSE At(c.N, row)
    ELSE At(c[Columns[col + 1]], row)

\* the cell cardToArray stores at array[row][col]
ArrayCell(c, row, col) ==
    IF col = 2
    THEN IF row = 2 THEN WILD
         ELSE LET nIndex == IF row < 2 THEN row ELSE row - 1
              IN  At(c.N, nIndex)
    ELSE At(c[Columns[col + 1]], row)

cardToArray(c) ==
    IF InvalidStructure(c) THEN Thrown
    ELSE [thrown |-> FALSE,
          array |-> [row \in 0..4 |-> [col \in 0..4 |-> ArrayCell(c, row, col)]]]

\* checkLine whose loop stops one cell early
checkLineShort(cardArray, marked, index, type) ==
    \A i \in 0..3 :
        LET cell == IF type = "row" THEN cardArray[index][i]
                    ELSE cardArray[i][index]
        IN  cell = WILD \/ cell \in marked

checkLine(cardArray, marked, index, type) ==
    \A i \in 0..4 :
        LET cell == IF type = "row" THEN cardArray[index][i]
                    ELSE cardArray[i][index]
        IN  cell = WILD \/ cell \in marked

\* checkDiagonal that reads the main diagonal for both types
checkDiagonalMainOnly(cardArray, marked, type) ==
    \A i \in 0..4 :
        LET cell == cardArray[i][i]
        IN  cell = WILD \/ cell \in marked

checkDiagonal(cardArray, marked, type) ==
    \A i \in 0..4 :
        LET cell == IF type = "main" THEN cardArray[i][i]
                    ELSE cardArray[i][4 - i]
        IN  cell = WILD \/ cell \in marked

\* FirstLine that keeps scanning and returns the last complete line
RECURSIVE LastLine(_, _, _, _)
LastLine(cardArray, marked, from, type) ==
    IF from >= 5 THEN 0 - 1
    ELSE LET later == LastLine(cardArray, marked, from + 1, type)
         IN  IF later >= 0 THEN later
             ELSE IF checkLine(cardArray, marked, from, type) THEN from
             ELSE 0 - 1

\* for (let index = from; index < 5; index++) if (checkLine(...)) return index
RECURSIVE FirstLine(_, _, _, _)
FirstLine(cardArray, marked, from, type) ==
    IF from >= 5 THEN 0 - 1
    ELSE IF checkLine(cardArray, marked, from, type) THEN from
    ELSE FirstLine(cardArray, marked, from + 1, type)

\* the body of the try block of checkWin
checkWinTry(c, marked_numbers) ==
    LET converted == cardToArray(c)
        cardArray == converted.array
        marked == SetOf(marked_numbers)
    IN  IF converted.thrown THEN Thrown
        ELSE LET row == FirstLine(cardArray, marked, 0, "row")
                 col == FirstLine(cardArray, marked, 0, "column")
             IN  IF row >= 0
                 THEN [hasWin |-> TRUE, pattern |-> "row", line |-> row]
                 ELSE IF col >= 0
                 THEN [hasWin |-> TRUE, pattern |-> "column", line |-> col]
                 ELSE IF checkDiagonal(cardArray, marked, "main")
                 THEN [hasWin |-> TRUE, pattern |-> "diagonal", line |-> 0]
                 ELSE IF checkDiagonal(cardArray, marked, "anti")
                 THEN [hasWin |-> TRUE, pattern |-> "diagonal", line |-> 1]
                 ELSE [hasWin |-> FALSE]

\* checkWin without its catch block: the exception reaches the caller
checkWinRethrows(outcome) == outcome

\* catch (error) { return { hasWin: false } }
checkWinCatch(outcome) ==
    IF outcome = Thrown THEN [hasWin |-> FALSE] ELSE outcome

\* checkWin whose early return tests length > 0 instead of length === 0
checkWinEarlyReturn(c, marked_numbers) ==
    IF c = NullCard \/ Len(marked_numbers) > 0
    THEN [hasWin |-> FALSE]
    ELSE checkWinCatch(checkWinTry(c, marked_numbers))

\* checkWin that rejects a marked list longer than the 24 numbers of a card
checkWinLengthGuard(c, marked_numbers) ==
    IF c = NullCard \/ Len(marked_numbers) = 0 \/ Len(marked_numbers) > 24
    THEN [hasWin |-> FALSE]
    ELSE checkWinCatch(checkWinTry(c, marked_numbers))

\* checkWin that reports no win for a marked list of more than 8 numbers
checkWinFewMarks(c, marked_numbers) ==
    IF c = NullCard \/ Len(marked_numbers) = 0 \/ Len(marked_numbers) > 8
    THEN [hasWin |-> FALSE]
    ELSE checkWinCatch(checkWinTry(c, marked_numbers))

checkWin(c, marked_numbers) ==
    IF c = NullCard \/ Len(marked_numbers) = 0
    THEN [hasWin |-> FALSE]
    ELSE checkWinCatch(checkWinTry(c, marked_numbers))

----------------------------------------------------------------------------
(* Near-win detection *)

\* the lines array without the anti diagonal
CloseLinesNoAnti ==
    [i \in 1..5 |-> [type |-> "row", index |-> i - 1]]
    \o [i \in 1..5 |-> [type |-> "column", index |-> i - 1]]
    \o <<[type |-> "diagonal", index |-> 0]>>

\* the lines array of isCloseToWin
CloseLines ==
    [i \in 1..5 |-> [type |-> "row", index |-> i - 1]]
    \o [i \in 1..5 |-> [type |-> "column", index |-> i - 1]]
    \o <<[type |-> "diagonal", index |-> 0], [type |-> "diagonal", index |-> 1]>>

\* the cell the inner loops of isCloseToWin read at position i of a line
LineCell(cardArray, line, i) ==
    IF line.type = "row" THEN cardArray[line.index][i]
    ELSE IF line.type = "column" THEN cardArray[i][line.index]
    ELSE IF line.index = 0 THEN cardArray[i][i]
    ELSE cardArray[i][4 - i]

\* unmarkedCount that counts the WILD cell as unmarked
unmarkedCountWild(cardArray, marked, line) ==
    Cardinality({i \in 0..4 : LineCell(cardArray, line, i) \notin marked})

unmarkedCount(cardArray, marked, line) ==
    Cardinality({i \in 0..4 :
        LET cell == LineCell(cardArray, line, i)
        IN  cell # WILD /\ cell \notin marked})

\* isCloseToWinTry that accepts a line with two unmarked cells as well
isCloseToWinTryTwoOpen(c, marked_numbers) ==
    LET converted == cardToArray(c)
        cardArray == converted.array
        marked == SetOf(marked_numbers)
    IN  IF converted.thrown THEN Thrown
        ELSE [result |-> \E k \in DOMAIN CloseLines :
                            unmarkedCount(cardArray, marked, CloseLines[k]) \in {1, 2}]

\* the body of the try block of isCloseToWin
isCloseToWinTry(c, marked_numbers) ==
    LET converted == cardToArray(c)
        cardArray == converted.array
        marked == SetOf(marked_numbers)
    IN  IF converted.thrown THEN Thrown
        ELSE [result |-> \E k \in DOMAIN CloseLines :
                            unmarkedCount(cardArray, marked, CloseLines[k]) = 1]

\* catch (error) { return false }
isCloseToWinCatch(outcome) ==
    IF outcome = Thrown THEN [result |-> FALSE] ELSE outcome

isCloseToWin(c, marked_numbers) ==
    IF c = NullCard \/ Len(marked_numbers) = 0
    THEN [result |-> FALSE]
    ELSE isCloseToWinCatch(isCloseToWinTry(c, marked_numbers))

----------------------------------------------------------------------------
(* JavaScript numbers of the timing model *)

\* A number is finite (the fraction num / den, den > 0), NaN, or an infinity
\* (num = 1 for +Infinity, num = -1 for -Infinity).

Fraction(n, d) ==
    IF d < 0 THEN [kind |-> "finite", num |-> 0 - n, den |-> 0 - d]
    ELSE [kind |-> "finite", num |-> n, den |-> d]

Number(n) == Fraction(n, 1)

NaN == [kind |-> "nan", num |-> 0, den |-> 1]

Infinity(sign) == [kind |-> "inf", num |-> sign, den |-> 1]

IsFinite(x) == x.kind = "finite"

Sign(x) == IF x.num > 0 THEN 1 ELSE IF x.num < 0 THEN 0 - 1 ELSE 0

\* a < b for numbers that are not NaN
Less(a, b) ==
    IF a.kind = "inf" THEN a.num < 0 /\ ~(b.kind = "inf" /\ b.num < 0)
    ELSE IF b.kind = "inf" THEN b.num > 0
    ELSE a.num * b.den < b.num * a.den

\* a * b
Times(a, b) ==
    IF a.kind = "nan" \/ b.kind = "nan" THEN NaN
    ELSE IF a.kind = "inf" \/ b.kind = "inf"
    THEN IF Sign(a) * Sign(b) = 0 THEN NaN ELSE Infinity(Sign(a) * Sign(b))
    ELSE Fraction(a.num * b.num, a.den * b.den)

\* a + b, finite numbers only
Plus(a, b) ==
    IF IsFinite(a) /\ IsFinite(b)
    THEN Fraction(a.num * b.den + b.num * a.den, a.den * b.den)
    ELSE NaN

\* a - b
Minus(a, b) ==
    IF a.kind = "nan" \/ b.kind = "nan" THEN NaN
    ELSE IF a.kind = "inf"
    THEN IF b.kind = "inf" /\ b.num = a.num THEN NaN ELSE a
    ELSE IF b.kind = "inf" THEN Infinity(0 - b.num)
    ELSE Fraction(a.num * b.den - b.num * a.den, a.den * b.den)

\* a / b
Divide(a, b) ==
    IF a.kind = "nan" \/ b.kind = "nan" THEN NaN
    ELSE IF a.kind = "inf"
    THEN IF b.kind = "inf" THEN NaN
         ELSE Infinity(IF b.num < 0 THEN 0 - a.num ELSE a.num)
    ELSE IF b.kind = "inf" THEN Number(0)
    ELSE IF b.num = 0
    THEN IF a.num = 0 THEN NaN ELSE Infinity(Sign(a))
    ELSE Fraction(a.num * b.den, a.den * b.num)

\* Math.floor, which drops the fraction that Math.round rounds
MathFloor(x) == IF IsFinite(x) THEN Number(x.num \div x.den) ELSE x

\* Math.round: the nearest integer, a half rounded up
MathRound(x) ==
    IF IsFinite(x) THEN Number((2 * x.num + x.den) \div (2 * x.den)) ELSE x

\* Math.ceil
MathCeil(x) ==
    IF IsFinite(x) THEN Number(0 - ((0 - x.num) \div x.den)) ELSE x

\* Math.min
MathMin(a, b) ==
    IF a.kind = "nan" \/ b.kind = "nan" THEN NaN
    ELSE IF Less(b, a) THEN b ELSE a

\* Math.max
MathMax(a, b) ==
    IF a.kind = "nan" \/ b.kind = "nan" THEN NaN
    ELSE IF Less(a, b) THEN b ELSE a

\* PowerOfTenTenths[j + 1] is the least integer p with p^10 >= 10^j, that is
\* with 10 * log10(p) >= j, for j in 0..36
PowerOfTenTenths ==
    <<1, 2, 2, 2, 3, 4, 4, 6, 7, 8,
      10, 13, 16, 20, 26, 32, 40, 51, 64, 80,
      100, 126, 159, 200, 252, 317, 399, 502, 631, 795,
      1000, 1259, 1585, 1996, 2512, 3163, 3982>>

\* the integer part of 10 * log10(p), for an integer p of 1..5011
TenthsOfLog10(p) ==
    CHOOSE j \in 0..36 :
        /\ PowerOfTenTenths[j + 1] <= p
        /\ j < 36 => p < PowerOfTenTenths[j + 2]

\* Math.log10 of an integer: NaN below 0, -Infinity at 0, and from 1 on the
\* exact value at a power of ten and otherwise the middle of the tenth
\* [j / 10, (j + 1) / 10) that holds the irrational value
MathLog10(x) ==
    IF x.kind = "nan" THEN NaN
    ELSE IF x.kind = "inf" THEN (IF x.num > 0 THEN x ELSE NaN)
    ELSE IF x.num < 0 THEN NaN
    ELSE IF x.num = 0 THEN Infinity(0 - 1)
    ELSE LET p == x.num \div x.den
             j == TenthsOfLog10(p)
         IN  IF j % 10 = 0 /\ p = PowerOfTenTenths[j + 1]
             THEN Fraction(j, 10)
             ELSE Fraction(2 * j + 1, 20)

----------------------------------------------------------------------------
(* Timing model *)

\* 45 - (0.5 * players)
numbersNeeded(players_) == Minus(Number(45), Times(Fraction(1, 2), players_))

\* durationMinutes * 60 * 0.90 / numbersNeeded
secondsPerCallFrequency(players_, durationMinutes) ==
    LET availableSeconds ==
            Times(Times(durationMinutes, Number(60)), Fraction(9, 10))
    IN  Divide(availableSeconds, numbersNeeded(players_))

\* calculateCallFrequency without the lower clamp
calculateCallFrequencyNoMax(players_, durationMinutes) ==
    LET secondsPerCall == MathRound(secondsPerCallFrequency(players_, durationMinutes))
    IN  MathMin(Number(90), secondsPerCall)

calculateCallFrequency(players_, durationMinutes) ==
    LET secondsPerCall == MathRound(secondsPerCallFrequency(players_, durationMinutes))
    IN  MathMax(Number(10), MathMin(Number(90), secondsPerCall))

\* 50 - 10 * Math.log10(players)
callsNeededFormula(players_) ==
    Minus(Number(50), Times(Number(10), MathLog10(players_)))

\* calculateCallsNeeded rounding down
calculateCallsNeededFloor(players_) ==
    LET result == MathFloor(callsNeededFormula(players_))
    IN  MathMax(Number(15), MathMin(Number(75), result))

calculateCallsNeeded(players_) ==
    LET result == MathCeil(callsNeededFormula(players_))
    IN  MathMax(Number(15), MathMin(Number(75), result))

\* the quotient with the 0.90 buffer of calculateCallFrequency
secondsPerCallNeededBuffer90(meetingMinutes_, callsNeeded_) ==
    LET buffer == Fraction(9, 10)
        availableSeconds == Times(Times(meetingMinutes_, Number(60)), buffer)
    IN  Divide(availableSeconds, callsNeeded_)

\* meetingMinutes * 60 * buffer / callsNeeded
secondsPerCallNeeded(meetingMinutes_, callsNeeded_) ==
    LET buffer == Fraction(17, 20)
        availableSeconds == Times(Times(meetingMinutes_, Number(60)), buffer)
    IN  Divide(availableSeconds, callsNeeded_)

calculateSecondsBetweenCalls(meetingMinutes_, callsNeeded_) ==
    LET secondsPerCall == MathRound(secondsPerCallNeeded(meetingMinutes_, callsNeeded_))
    IN  MathMax(Number(5), MathMin(Number(120), secondsPerCall))

----------------------------------------------------------------------------
(* Inputs of the classifiers *)

\* the cards generateMyngoCard returns for the seeds 0..MaxCardSeed
ValidCards == {generateMyngoCard(s).card : s \in 0..MaxCardSeed}

\* the subsets of S with at most k elements
RECURSIVE SubsetsUpTo(_, _)
SubsetsUpTo(S, k) ==
    IF k <= 0 THEN {{}}
    ELSE LET smaller == SubsetsUpTo(S, k - 1)
         IN  smaller \cup {T \cup {x} : T \in smaller, x \in S}

Min(S) == CHOOSE x \in S : \A y \in S : x <= y

\* the numbers of S as an array, ascending
RECURSIVE ArrayOf(_)
ArrayOf(S) ==
    IF S = {} THEN <<>> ELSE <<Min(S)>> \o ArrayOf(S \ {Min(S)})

\* the cell at (row, col) of the 5x5 grid of a well-formed card
GridCell(c, row, col) ==
    IF row = 2 /\ col = 2 THEN WILD
    ELSE IF col = 2 THEN c.N[IF row < 2 THEN row + 1 ELSE row]
    ELSE c[Columns[col + 1]][row + 1]

RowLine(r) == {<<r, col>> : col \in 0..4}

ColumnLine(col) == {<<r, col>> : r \in 0..4}

MainDiagonal == {<<i, i>> : i \in 0..4}

AntiDiagonal == {<<i, 4 - i>> : i \in 0..4}

\* the 12 lines of the grid, each a set of (row, col) positions
AllLines ==
    {RowLine(r) : r \in 0..4} \cup {ColumnLine(col) : col \in 0..4}
    \cup {MainDiagonal, AntiDiagonal}

\* the numbers (free cell excluded) of a line of a well-formed card
LineNumbers(c, line) == {GridCell(c, p[1], p[2]) : p \in line} \ {WILD}

\* the 24 numbers of a well-formed card
CardNumbers(c) == UNION {SetOf(c[Columns[k]]) : k \in DOMAIN Columns}

\* the smallest number of 1..75 that is not on the card
StrayNumber(c) == Min((1..75) \ CardNumbers(c))

\* marked sets for the numbers of card c: the numbers of at most maxLines
\* lines (or of the whole card) without at most maxMissing of them and with
\* at most maxExtra others, and every set of at most maxSmall numbers
MarkedSetsUpTo(c, maxLines, maxMissing, maxExtra, maxSmall) ==
    LET onCard == CardNumbers(c)
        any == onCard \cup {StrayNumber(c)}
        unions == {UNION {LineNumbers(c, l) : l \in L} :
                      L \in SubsetsUpTo(AllLines, maxLines)} \cup {onCard}
    IN  {(u \ d) \cup a : u \in unions, d \in SubsetsUpTo(onCard, maxMissing),
                          a \in SubsetsUpTo(any, maxExtra)}
        \cup SubsetsUpTo(any, maxSmall)

\* the marked sets given to the classifiers with a well-formed card
MarkedSets(c) == MarkedSetsUpTo(c, MaxLines, MaxMissing, MaxExtra, MaxSmall)

\* the marked sets given to the classifiers with a malformed card made from c
MalformedMarkedSets(c) == MarkedSetsUpTo(c, 1, MaxMissing, 0, 1)

\* c without column name
WithoutColumn(c, name) == [k \in DOMAIN c \ {name} |-> c[k]]

\* c with numbers as column name
WithColumn(c, name, numbers) == [c EXCEPT ![name] = numbers]

\* the cards with a missing column
MissingColumnCards(c) == {WithoutColumn(c, Columns[k]) : k \in DOMAIN Columns}

\* the cards with one column too short (by one number, or empty as in the
\* initial value generateMyngoCard gives a card) or too long by one number
WrongLengthCards(c) ==
    UNION {{WithColumn(c, Columns[k], SubSeq(c[Columns[k]], 1, Len(c[Columns[k]]) - 1)),
            WithColumn(c, Columns[k], <<>>),
            WithColumn(c, Columns[k], Append(c[Columns[k]], StrayNumber(c)))} :
           k \in DOMAIN Columns}

\* a card with all five columns, 5 numbers in M, Y, G, O and 4 in N
WellFormed(c) ==
    /\ ~InvalidStructure(c)
    /\ \A k \in DOMAIN Columns :
          Len(c[Columns[k]]) = (IF Columns[k] = "N" THEN 4 ELSE 5)

----------------------------------------------------------------------------
(* The classifiers applied to a card and a marked list *)

\* a classifier that has not been called yet
NotCalled == [pending |-> TRUE]

\* no room in play
NoRoom ==
    /\ roomStatus = "none"
    /\ called_numbers = <<>>
    /\ playerRows = <<>>
    /\ markRequests = {}
    /\ winRequests = {}
    /\ channel = <<>>
    /\ calledNumbers = <<>>
    /\ roomPlayers = <<>>
    /\ currentPlayer = <<>>
    /\ playerMarkedNumbers = <<>>
    /\ hasWon = <<>>
    /\ winClicks = <<>>
    /\ finishing = {}
    /\ botRuns = <<>>
    /\ joinCall = NotCalled
    /\ joinOutcome = NotCalled

\* a row of rooms that does not exist, a room that is not loaded
NoConfig == [isNull |-> TRUE]

\* the host has neither created a room nor opened the dashboard
NoHost ==
    /\ demoMode = FALSE
    /\ config = NoConfig
    /\ room = NoConfig
    /\ isAutoMode = FALSE
    /\ isPaused = FALSE
    /\ countdown = 0
    /\ timerOn = FALSE

\* the setup form untouched: its default settings, nothing computed
SetupDefaults ==
    /\ players = 25
    /\ meetingMinutes = 30
    /\ callFrequency = NotCalled
    /\ callsNeeded = NotCalled
    /\ secondsBetweenCalls = NotCalled

Init ==
    /\ rng = 0
    /\ card \in ValidCards
    /\ markedNumbers \in {ArrayOf(S) : S \in MarkedSets(card)}
    /\ winCheck = NotCalled
    /\ closeToWin = NotCalled
    /\ SetupDefaults
    /\ NoRoom
    /\ NoHost

CheckWin ==
    /\ winCheck = NotCalled
    /\ winCheck' = checkWin(card, markedNumbers)
    /\ UNCHANGED <<rng, card, markedNumbers, closeToWin>>
    /\ UNCHANGED <<timingVars, gameVars, hostVars, serverVars, joinVars>>

IsCloseToWin ==
    /\ closeToWin = NotCalled
    /\ closeToWin' = isCloseToWin(card, markedNumbers)
    /\ UNCHANGED <<rng, card, markedNumbers, winCheck>>
    /\ UNCHANGED <<timingVars, gameVars, hostVars, serverVars, joinVars>>

Next == CheckWin \/ IsCloseToWin

Spec == Init /\ [][Next]_vars

----------------------------------------------------------------------------
(* The classifiers applied to a malformed card *)

InitMalformed ==
    /\ rng = 0
    /\ \E base \in ValidCards :
          /\ card \in {NullCard} \cup MissingColumnCards(base)
                                 \cup WrongLengthCards(base)
          /\ markedNumbers \in {ArrayOf(S) : S \in MalformedMarkedSets(base)}
    /\ winCheck = NotCalled
    /\ closeToWin = NotCalled
    /\ SetupDefaults
    /\ NoRoom
    /\ NoHost

SpecMalformed == InitMalformed /\ [][Next]_vars

----------------------------------------------------------------------------
(* The classifiers applied to marked lists in any order, with duplicates *)

Reverse(list) == [i \in 1..Len(list) |-> list[Len(list) + 1 - i]]

\* the list started at one of its first MaxShift + 1 positions, and each of
\* these reversed
Reorderings(list) ==
    LET rotations == {SubSeq(list, k + 1, Len(list)) \o SubSeq(list, 1, k) :
                         k \in 0..(IF Len(list) < MaxShift THEN Len(list)
                                   ELSE MaxShift)}
    IN  rotations \cup {Reverse(r) : r \in rotations}

\* the reorderings of the list followed by at most copies - 1 more of them
RECURSIVE Repeated(_, _)
Repeated(list, copies) ==
    IF copies <= 1 THEN Reorderings(list)
    ELSE LET fewer == Repeated(list, copies - 1)
         IN  fewer \cup {a \o b : a \in fewer, b \in Reorderings(list)}

\* the marked lists of the two views of one player: the same numbers in
\* another order, some of them more than once
ViewLists(c) ==
    UNION {Repeated(ArrayOf(S), MaxCopies) : S \in MarkedSetsUpTo(c, 1, MaxMissing, 0, 1)}

InitViews ==
    /\ rng = 0
    /\ card \in ValidCards
    /\ markedNumbers \in ViewLists(card)
    /\ winCheck = NotCalled
    /\ closeToWin = NotCalled
    /\ SetupDefaults
    /\ NoRoom
    /\ NoHost

SpecViews == InitViews /\ [][Next]_vars

----------------------------------------------------------------------------
(* Card generation from every state of the random source *)

InitGen ==
    /\ rng \in 0..(RandModulus - 1)
    /\ card = NullCard
    /\ markedNumbers = <<>>
    /\ winCheck = NotCalled
    /\ closeToWin = NotCalled
    /\ SetupDefaults
    /\ NoRoom
    /\ NoHost

GenerateMyngoCard ==
    /\ card' = generateMyngoCard(rng).card
    /\ rng' = generateMyngoCard(rng).rng
    /\ UNCHANGED <<markedNumbers, winCheck, closeToWin>>
    /\ UNCHANGED <<timingVars, gameVars, hostVars, serverVars, joinVars>>

NextGen == GenerateMyngoCard

SpecGen == InitGen /\ [][NextGen]_vars

----------------------------------------------------------------------------
(* The timings of the setup page for every setting of its two sliders *)

\* no card in play
EngineIdle ==
    /\ rng = 0
    /\ card = NullCard
    /\ markedNumbers = <<>>
    /\ winCheck = NotCalled
    /\ closeToWin = NotCalled

\* player counts past the sliders' range, around the point where
\* 50 - 10 * log10(players) reaches the lower clamp
LargePlayers == {1000, 3162, 3163, 3982}

PlayerInputs == ((0 - 1)..MaxPlayers) \cup LargePlayers

InitTiming ==
    /\ EngineIdle
    /\ players \in PlayerInputs
    /\ meetingMinutes \in 0..MaxMinutes
    /\ callFrequency = NotCalled
    /\ callsNeeded = NotCalled
    /\ secondsBetweenCalls = NotCalled
    /\ NoRoom
    /\ NoHost

CalculateCallFrequency ==
    /\ callFrequency = NotCalled
    /\ callFrequency' = calculateCallFrequency(Number(players), Number(meetingMinutes))
    /\ UNCHANGED <<players, meetingMinutes, callsNeeded, secondsBetweenCalls>>
    /\ UNCHANGED <<engineVars, gameVars, hostVars, serverVars, joinVars>>

CalculateCallsNeeded ==
    /\ callsNeeded = NotCalled
    /\ callsNeeded' = calculateCallsNeeded(Number(players))
    /\ UNCHANGED <<players, meetingMinutes, callFrequency, secondsBetweenCalls>>
    /\ UNCHANGED <<engineVars, gameVars, hostVars, serverVars, joinVars>>

\* the calls needed are those computed the line before, or the caller's own
CalculateSecondsBetweenCalls ==
    /\ callsNeeded # NotCalled
    /\ secondsBetweenCalls = NotCalled
    /\ secondsBetweenCalls' = calculateSecondsBetweenCalls(Number(meetingMinutes), callsNeeded)
    /\ UNCHANGED <<players, meetingMinutes, callFrequency, callsNeeded>>
    /\ UNCHANGED <<engineVars, gameVars, hostVars, serverVars, joinVars>>

NextTiming ==
    \/ CalculateCallFrequency
    \/ CalculateCallsNeeded
    \/ CalculateSecondsBetweenCalls

SpecTiming == InitTiming /\ [][NextTiming]_vars

----------------------------------------------------------------------------
(* calculateCallsNeeded for every player count *)

InitNeeded ==
    /\ EngineIdle
    /\ players \in PlayerInputs
    /\ meetingMinutes = 30
    /\ callFrequency = NotCalled
    /\ callsNeeded = NotCalled
    /\ secondsBetweenCalls = NotCalled
    /\ NoRoom
    /\ NoHost

NextNeeded == CalculateCallsNeeded

SpecNeeded == InitNeeded /\ [][NextNeeded]_vars

----------------------------------------------------------------------------
(* calculateSecondsBetweenCalls for every pair of arguments *)

InitSeconds ==
    /\ EngineIdle
    /\ players = 25
    /\ meetingMinutes \in 0..MaxMinutes
    /\ callFrequency = NotCalled
    /\ callsNeeded \in {Number(c) : c \in (0 - 1)..MaxCallsArg}
    /\ secondsBetweenCalls = NotCalled
    /\ NoRoom
    /\ NoHost

NextSeconds == CalculateSecondsBetweenCalls

SpecSeconds == InitSeconds /\ [][NextSeconds]_vars

----------------------------------------------------------------------------
(* A room in play: the players' pages, the tables and the real-time events *)

\* a row of the players table
PlayerRow(id, c, marked, winner) ==
    [id |-> id, card |-> c, marked_numbers |-> marked, is_bot |-> FALSE,
     is_winner |-> winner]

\* a row of the players table as addDemoBots inserts it
BotRow(id, c) ==
    [id |-> id, card |-> c, marked_numbers |-> <<>>, is_bot |-> TRUE,
     is_winner |-> FALSE]

\* currentPlayer before the page has found its player
NoPlayer == [isNull |-> TRUE]

\* real-time payloads: a new row of called_numbers, an updated row of players
InsertNumber(n) ==
    [table |-> "called_numbers", eventType |-> "INSERT", new |-> [number |-> n]]

UpdatePlayer(row) ==
    [table |-> "players", eventType |-> "UPDATE", new |-> row]

\* every subscribed page is sent the event
Broadcast(event) == [q \in DOMAIN channel |-> Append(channel[q], event)]

\* players.some(p => p.is_winner === true)
gameHasWinner(roomPlayers_) ==
    \E q \in DOMAIN roomPlayers_ : roomPlayers_[q].is_winner

\* handleCellClick without the test of the called set
handleCellClickUncalled(cell, canMark, calledNumbers_, markedNumbers_) ==
    IF cell = WILD \/ ~canMark THEN FALSE
    ELSE IF cell \in SetOf(markedNumbers_) THEN FALSE
    ELSE TRUE

\* MyngoCard.handleCellClick: TRUE when it goes on to onMarkNumber(number)
handleCellClick(cell, canMark, calledNumbers_, markedNumbers_) ==
    IF cell = WILD \/ ~canMark THEN FALSE
    ELSE IF cell \notin SetOf(calledNumbers_) THEN FALSE
    ELSE IF cell \in SetOf(markedNumbers_) THEN FALSE
    ELSE TRUE

\* PlayerGame.handleMarkNumber: the new value of markedNumbers
handleMarkNumber(markedNumbers_, currentPlayer_, number) ==
    IF number \in SetOf(markedNumbers_) THEN markedNumbers_
    ELSE IF currentPlayer_ = NoPlayer THEN markedNumbers_
    ELSE Append(markedNumbers_, number)

\* the effect that would take every update of the found player
updateCurrentPlayerAlways(currentPlayer_, foundPlayer) ==
    IF foundPlayer # NoPlayer THEN foundPlayer ELSE currentPlayer_

\* PlayerGame "update current player" effect: the new value of currentPlayer
updateCurrentPlayer(currentPlayer_, foundPlayer) ==
    IF foundPlayer # NoPlayer
       /\ (currentPlayer_ = NoPlayer \/ currentPlayer_.id # foundPlayer.id)
    THEN foundPlayer
    ELSE currentPlayer_

\* PlayerGame synchronisation effect, run when currentPlayer.marked_numbers
\* has changed from before to after: the new value of markedNumbers
syncMarkedNumbers(markedNumbers_, before, after) ==
    IF after = NoPlayer THEN markedNumbers_
    ELSE IF before # NoPlayer /\ before.id = after.id
            /\ before.marked_numbers = after.marked_numbers
    THEN markedNumbers_
    ELSE IF SetOf(markedNumbers_) # SetOf(after.marked_numbers)
    THEN after.marked_numbers
    ELSE markedNumbers_

\* PlayerGame.checkForWin: the new value of hasWon
checkForWin(currentPlayer_, markedNumbers_, hasWon_) ==
    IF currentPlayer_ = NoPlayer \/ Len(markedNumbers_) = 0 THEN hasWon_
    ELSE hasWon_ \/ checkWin(currentPlayer_.card, markedNumbers_).hasWin

\* the MYNGO button of MyngoCard is rendered
winButtonShown(currentPlayer_, markedNumbers_, hasWon_, roomPlayers_) ==
    /\ currentPlayer_ # NoPlayer
    /\ checkWin(currentPlayer_.card, markedNumbers_).hasWin
    /\ hasWon_ /\ ~gameHasWinner(roomPlayers_)

Players == 1..NumPlayers

\* the card that joinRoom generated for the player
PlayerCard(p) == generateMyngoCard(p - 1).card

\* the numbers of the player's middle row, left to right
MiddleRow(p) ==
    LET c == PlayerCard(p)
    IN  <<GridCell(c, 2, 0), GridCell(c, 2, 1), GridCell(c, 2, 3), GridCell(c, 2, 4)>>

\* the numbers of it marked when the room is first observed ...
MarkedAtFirst(p) == SubSeq(MiddleRow(p), 1, 4 - OpenCells)

\* ... and the numbers called by then, in the order of their calls
CalledAtFirst == ArrayOf(UNION {SetOf(MarkedAtFirst(p)) : p \in Players})

\* the numbers the host can still call: the rest of the middle rows
CallPool == UNION {SetOf(MiddleRow(p)) : p \in Players} \ SetOf(CalledAtFirst)

\* the cells a player clicks: the middle row with its free cell and the first
\* two cells of the top row
ClickCells(p) ==
    {GridCell(PlayerCard(p), 2, col) : col \in 0..4}
        \cup {GridCell(PlayerCard(p), 0, 0), GridCell(PlayerCard(p), 0, 1)}

\* every page was loaded when its player joined and has seen every event
InitGame ==
    /\ EngineIdle
    /\ SetupDefaults
    /\ roomStatus = "active"
    /\ called_numbers = CalledAtFirst
    /\ playerRows = [p \in Players |->
                        PlayerRow(p, PlayerCard(p), MarkedAtFirst(p), FALSE)]
    /\ markRequests = {}
    /\ winRequests = {}
    /\ channel = [p \in Players |-> <<>>]
    /\ calledNumbers = [p \in Players |-> Reverse(CalledAtFirst)]
    /\ roomPlayers = [p \in Players |-> playerRows]
    /\ currentPlayer = [p \in Players |-> PlayerRow(p, PlayerCard(p), <<>>, FALSE)]
    /\ playerMarkedNumbers = [p \in Players |-> MarkedAtFirst(p)]
    /\ hasWon = [p \in Players |-> FALSE]
    /\ winClicks = [p \in Players |-> 0]
    /\ NoHost
    /\ finishing = {}
    /\ botRuns = <<>>
    /\ joinCall = NotCalled
    /\ joinOutcome = NotCalled

\* SupabaseService.callNumber for a number the host drew from those not called
CallNumber(n) ==
    /\ n \notin SetOf(called_numbers)
    /\ called_numbers' = Append(called_numbers, n)
    /\ channel' = Broadcast(InsertNumber(n))
    /\ UNCHANGED <<roomStatus, playerRows, markRequests, winRequests, calledNumbers,
                   roomPlayers, currentPlayer, playerMarkedNumbers, hasWon, winClicks>>
    /\ UNCHANGED <<engineVars, timingVars, hostVars, serverVars, joinVars>>

\* the called numbers subscription of the page of player p
ReceiveCalledNumber(p) ==
    /\ channel[p] # <<>>
    /\ Head(channel[p]).table = "called_numbers"
    /\ calledNumbers' = [calledNumbers EXCEPT
                            ![p] = <<Head(channel[p]).new.number>> \o @]
    /\ channel' = [channel EXCEPT ![p] = Tail(@)]
    /\ UNCHANGED <<roomStatus, called_numbers, playerRows, markRequests, winRequests,
                   roomPlayers, currentPlayer, playerMarkedNumbers, hasWon, winClicks>>
    /\ UNCHANGED <<engineVars, timingVars, hostVars, serverVars, joinVars>>

\* the players subscription of the page of player p, and the effects of
\* PlayerGame that the new players list triggers
ReceivePlayerUpdate(p) ==
    /\ channel[p] # <<>>
    /\ Head(channel[p]).table = "players"
    /\ LET row == Head(channel[p]).new
           updated == [q \in DOMAIN roomPlayers[p] |->
                          IF roomPlayers[p][q].id = row.id THEN row
                          ELSE roomPlayers[p][q]]
           foundPlayer == updated[p]
           current == updateCurrentPlayer(currentPlayer[p], foundPlayer)
           loaded == IF current # currentPlayer[p] THEN foundPlayer.marked_numbers
                     ELSE playerMarkedNumbers[p]
           synced == syncMarkedNumbers(loaded, currentPlayer[p], current)
       IN  /\ roomPlayers' = [roomPlayers EXCEPT ![p] = updated]
           /\ currentPlayer' = [currentPlayer EXCEPT ![p] = current]
           /\ playerMarkedNumbers' = [playerMarkedNumbers EXCEPT ![p] = synced]
           /\ hasWon' = [hasWon EXCEPT ![p] = checkForWin(current, synced, @)]
    /\ channel' = [channel EXCEPT ![p] = Tail(@)]
    /\ UNCHANGED <<roomStatus, called_numbers, playerRows, markRequests, winRequests,
                   calledNumbers, winClicks>>
    /\ UNCHANGED <<engineVars, timingVars, hostVars, serverVars, joinVars>>

\* player p clicks a cell of the card: handleCellClick, handleMarkNumber with
\* its unawaited updatePlayerMarkedNumbers, and the checkForWin effect
ClickCell(p, cell) ==
    LET canMark == ~gameHasWinner(roomPlayers[p])
        goesOn == handleCellClick(cell, canMark, calledNumbers[p],
                                  playerMarkedNumbers[p])
        newMarkedNumbers ==
            IF goesOn
            THEN handleMarkNumber(playerMarkedNumbers[p], currentPlayer[p], cell)
            ELSE playerMarkedNumbers[p]
    IN  /\ playerMarkedNumbers' = [playerMarkedNumbers EXCEPT ![p] = newMarkedNumbers]
        /\ markRequests' =
              IF newMarkedNumbers # playerMarkedNumbers[p]
              THEN markRequests \cup
                      {[playerId |-> currentPlayer[p].id,
                        markedNumbers |-> newMarkedNumbers]}
              ELSE markRequests
        /\ hasWon' = [hasWon EXCEPT
                         ![p] = checkForWin(currentPlayer[p], newMarkedNumbers, @)]
        /\ UNCHANGED <<roomStatus, called_numbers, playerRows, winRequests, channel,
                       calledNumbers, roomPlayers, currentPlayer, winClicks>>
        /\ UNCHANGED <<engineVars, timingVars, hostVars, serverVars, joinVars>>

\* SupabaseService.updatePlayerMarkedNumbers reaches the players table
UpdatePlayerMarkedNumbers(request) ==
    /\ request \in markRequests
    /\ markRequests' = markRequests \ {request}
    /\ playerRows' = [playerRows EXCEPT
                         ![request.playerId].marked_numbers = request.markedNumbers]
    /\ channel' = Broadcast(UpdatePlayer(playerRows'[request.playerId]))
    /\ UNCHANGED <<roomStatus, called_numbers, winRequests, calledNumbers, roomPlayers,
                   currentPlayer, playerMarkedNumbers, hasWon, winClicks>>
    /\ UNCHANGED <<engineVars, timingVars, hostVars, serverVars, joinVars>>

\* player p clicks the MYNGO button: PlayerGame.handleWin
HandleWin(p) ==
    /\ winButtonShown(currentPlayer[p], playerMarkedNumbers[p], hasWon[p],
                      roomPlayers[p])
    /\ winClicks[p] < MaxWinClicks
    /\ winClicks' = [winClicks EXCEPT ![p] = @ + 1]
    /\ winRequests' = winRequests \cup {currentPlayer[p].id}
    /\ UNCHANGED <<roomStatus, called_numbers, playerRows, markRequests, channel,
                   calledNumbers, roomPlayers, currentPlayer,
                   playerMarkedNumbers, hasWon>>
    /\ UNCHANGED <<engineVars, timingVars, hostVars, serverVars, joinVars>>

\* SupabaseService.markPlayerAsWinner reaches the players table; it goes on
\* to its updateRoomStatus
MarkPlayerAsWinner(playerId) ==
    /\ playerId \in winRequests
    /\ winRequests' = winRequests \ {playerId}
    /\ playerRows' = [playerRows EXCEPT ![playerId].is_winner = TRUE]
    /\ channel' = Broadcast(UpdatePlayer(playerRows'[playerId]))
    /\ finishing' = finishing \cup {playerId}
    /\ UNCHANGED <<roomStatus, called_numbers, markRequests, calledNumbers,
                   roomPlayers, currentPlayer, playerMarkedNumbers, hasWon,
                   winClicks>>
    /\ UNCHANGED <<engineVars, timingVars, hostVars, botRuns, joinVars>>

\* SupabaseService.updateRoomStatus that leaves the status of the row as it is
updateRoomStatusKeeps(roomStatus_, status) == roomStatus_

\* the status of the room's row after SupabaseService.updateRoomStatus
updateRoomStatus(roomStatus_, status) == status

\* markPlayerAsWinner for the player reaches its updateRoomStatus(roomId,
\* 'finished')
UpdateRoomStatus(playerId) ==
    /\ playerId \in finishing
    /\ finishing' = finishing \ {playerId}
    /\ roomStatus' = updateRoomStatus(roomStatus, "finished")
    /\ UNCHANGED <<called_numbers, playerRows, markRequests, winRequests, channel,
                   calledNumbers, roomPlayers, currentPlayer, playerMarkedNumbers,
                   hasWon, winClicks>>
    /\ UNCHANGED <<engineVars, timingVars, hostVars, botRuns, joinVars>>

NextGame ==
    \/ \E n \in CallPool : CallNumber(n)
    \/ \E p \in Players : ReceiveCalledNumber(p)
    \/ \E p \in Players : ReceivePlayerUpdate(p)
    \/ \E p \in Players : \E cell \in ClickCells(p) : ClickCell(p, cell)
    \/ \E request \in markRequests : UpdatePlayerMarkedNumbers(request)
    \/ \E p \in Players : HandleWin(p)
    \/ \E playerId \in winRequests : MarkPlayerAsWinner(playerId)
    \/ \E playerId \in finishing : UpdateRoomStatus(playerId)

SpecGame == InitGame /\ [][NextGame]_vars

----------------------------------------------------------------------------
(* The host's setup form and the controls of the dashboard *)

\* { ...a, ...b } of two objects
Spread(a, b) ==
    [k \in DOMAIN a \cup DOMAIN b |-> IF k \in DOMAIN b THEN b[k] ELSE a[k]]

\* the roomConfig that createRoom of the setup form hands to SupabaseService
setupRoomConfig(expectedPlayers, meetingDuration, demoMode_, callFrequency_) ==
    [expectedPlayers |-> expectedPlayers,
     meetingDuration |-> meetingDuration,
     demoMode |-> demoMode_,
     autoCall |-> [enabled |-> TRUE],
     isPaused |-> FALSE,
     autoClose |-> TRUE,
     autoCloseMinutes |-> 120,
     callFrequency |-> callFrequency_]

\* the config column that SupabaseService.createRoom stores
createRoom(config_) ==
    Spread(config_, [autoCall |-> Spread([enabled |-> FALSE], config_.autoCall),
                     isPaused |-> FALSE])

\* the three rows that addDemoBots inserts, their cards drawn one after another
addDemoBots(s) ==
    LET first == generateMyngoCard(s)
        second == generateMyngoCard(first.rng)
        third == generateMyngoCard(second.rng)
    IN  [rows |-> <<BotRow(1, first.card), BotRow(2, second.card),
                    BotRow(3, third.card)>>,
         rng |-> third.rng]

\* the page of the host among the subscribed pages
Host == 0

\* real-time payload: an updated row of rooms
UpdateRoom(status, config_) ==
    [table |-> "rooms", eventType |-> "UPDATE",
     new |-> [status |-> status, config |-> config_]]

\* allNumbers.filter(num => !calledSet.has(num))
getAvailableNumbers(calledNumbers_) ==
    SelectSeq([i \in 1..75 |-> i], LAMBDA num : num \notin SetOf(calledNumbers_))

\* players.filter(p => p.is_winner === true)
winnerPlayers(players_) ==
    {q \in DOMAIN players_ : players_[q].is_winner}

\* the interval between calls the dashboard takes from the room
autoInterval(room_) == room_.callFrequency.num

\* the auto-call effect without its look at isPaused
autoCallTimerIgnoresPause(isAutoMode_, isPaused_, winnerPlayers_, availableNumbers_) ==
    ~(~isAutoMode_ \/ winnerPlayers_ # {} \/ availableNumbers_ = <<>>)

\* the auto-call effect: TRUE when it sets the interval timer, FALSE when it
\* returns with the timer of the render before cleared
autoCallTimer(isAutoMode_, isPaused_, winnerPlayers_, availableNumbers_) ==
    ~(~isAutoMode_ \/ isPaused_ \/ winnerPlayers_ # {} \/ availableNumbers_ = <<>>)

\* the effect that starts the countdown over: it runs when one of its
\* dependencies has changed
countdownEffect(changed, isAutoMode_, isPaused_, winnerPlayers_, autoInterval_, countdown_) ==
    IF changed /\ isAutoMode_ /\ ~isPaused_ /\ winnerPlayers_ = {}
    THEN autoInterval_
    ELSE countdown_

\* the auto-call effect after the render that the step brings about
TimerEffect ==
    timerOn' = autoCallTimer(isAutoMode', isPaused',
                             winnerPlayers(roomPlayers'[Host]),
                             getAvailableNumbers(calledNumbers'[Host]))

\* the three timings the setup form shows for its settings
Rendered(players_, meetingMinutes_) ==
    /\ callFrequency' = calculateCallFrequency(Number(players_),
                                               Number(meetingMinutes_))
    /\ callsNeeded' = calculateCallsNeeded(Number(players_))
    /\ secondsBetweenCalls' =
          calculateSecondsBetweenCalls(Number(meetingMinutes_), callsNeeded')

\* the positions of the two sliders
ExpectedPlayersRange == 10..100
MeetingDurationRange == {15 + 5 * k : k \in 0..15}

InitSetup ==
    /\ EngineIdle
    /\ NoRoom
    /\ NoHost
    /\ players = 25
    /\ meetingMinutes = 30
    /\ callFrequency = calculateCallFrequency(Number(25), Number(30))
    /\ callsNeeded = calculateCallsNeeded(Number(25))
    /\ secondsBetweenCalls =
          calculateSecondsBetweenCalls(Number(30), calculateCallsNeeded(Number(25)))

\* the host moves the slider of the expected players
SlideExpectedPlayers(value) ==
    /\ config = NoConfig
    /\ players' = value
    /\ Rendered(value, meetingMinutes)
    /\ UNCHANGED <<meetingMinutes, engineVars, gameVars, hostVars, serverVars,
                   joinVars>>

\* the host moves the slider of the meeting duration
SlideMeetingDuration(value) ==
    /\ config = NoConfig
    /\ meetingMinutes' = value
    /\ Rendered(players, value)
    /\ UNCHANGED <<players, engineVars, gameVars, hostVars, serverVars, joinVars>>

\* the host ticks or clears the demo checkbox
HandleCheckboxChange(checked) ==
    /\ config = NoConfig
    /\ demoMode' = checked
    /\ UNCHANGED <<config, room, isAutoMode, isPaused, countdown, timerOn>>
    /\ UNCHANGED <<engineVars, timingVars, gameVars, serverVars, joinVars>>

\* the host creates the room: createRoom of the setup form with
\* SupabaseService.createRoom and, in demo mode, addDemoBots
CreateRoom ==
    /\ config = NoConfig
    /\ config' = createRoom(setupRoomConfig(players, meetingMinutes, demoMode,
                                            callFrequency))
    /\ roomStatus' = "waiting"
    /\ IF demoMode
       THEN /\ playerRows' = addDemoBots(rng).rows
            /\ rng' = addDemoBots(rng).rng
       ELSE UNCHANGED <<playerRows, rng>>
    /\ UNCHANGED <<card, markedNumbers, winCheck, closeToWin>>
    /\ UNCHANGED <<called_numbers, markRequests, winRequests, channel,
                   calledNumbers, roomPlayers, currentPlayer, playerMarkedNumbers,
                   hasWon, winClicks>>
    /\ UNCHANGED <<demoMode, room, isAutoMode, isPaused, countdown, timerOn>>
    /\ UNCHANGED <<timingVars, serverVars, joinVars>>

\* the host opens the dashboard: useMyngoRoom loads the room, its players and
\* its called numbers and subscribes, and HostDashboard takes its controls
\* from the config
StartDashboard ==
    /\ config # NoConfig
    /\ room = NoConfig
    /\ room' = config
    /\ isAutoMode' = config.autoCall.enabled
    /\ isPaused' = config.isPaused
    /\ channel' = [q \in {Host} |-> <<>>]
    /\ calledNumbers' = [q \in {Host} |-> Reverse(called_numbers)]
    /\ roomPlayers' = [q \in {Host} |-> playerRows]
    /\ countdown' = countdownEffect(TRUE, isAutoMode', isPaused',
                                    winnerPlayers(playerRows),
                                    autoInterval(config), countdown)
    /\ TimerEffect
    /\ UNCHANGED <<roomStatus, called_numbers, playerRows, markRequests,
                   winRequests, currentPlayer, playerMarkedNumbers, hasWon,
                   winClicks>>
    /\ UNCHANGED <<demoMode, config>>
    /\ UNCHANGED <<engineVars, timingVars, serverVars, joinVars>>

\* the host clicks the auto mode switch: toggleAutoMode writes the room it
\* holds with the switch turned over; the effect that syncs the controls
\* with the room puts isAutoMode back until the update arrives
ToggleAutoMode ==
    /\ room # NoConfig
    /\ Len(channel[Host]) < MaxPending
    /\ config' = Spread(room, [autoCall |->
                                  Spread(room.autoCall, [enabled |-> ~isAutoMode])])
    /\ channel' = Broadcast(UpdateRoom(roomStatus, config'))
    /\ isAutoMode' = room.autoCall.enabled
    /\ countdown' = IF ~isAutoMode
                    THEN autoInterval(room)
                    ELSE countdownEffect(TRUE, isAutoMode, isPaused,
                                         winnerPlayers(roomPlayers[Host]),
                                         autoInterval(room), countdown)
    /\ UNCHANGED <<demoMode, room, isPaused, timerOn>>
    /\ UNCHANGED <<roomStatus, called_numbers, playerRows, markRequests,
                   winRequests, calledNumbers, roomPlayers, currentPlayer,
                   playerMarkedNumbers, hasWon, winClicks>>
    /\ UNCHANGED <<engineVars, timingVars, serverVars, joinVars>>

\* the host clicks pause or resume: togglePause
TogglePause ==
    /\ room # NoConfig
    /\ Len(channel[Host]) < MaxPending
    /\ config' = Spread(room, [isPaused |-> ~isPaused])
    /\ channel' = Broadcast(UpdateRoom(roomStatus, config'))
    /\ isPaused' = room.isPaused
    /\ countdown' = IF isPaused
                    THEN autoInterval(room)
                    ELSE countdownEffect(TRUE, isAutoMode, FALSE,
                                         winnerPlayers(roomPlayers[Host]),
                                         autoInterval(room), countdown)
    /\ UNCHANGED <<demoMode, room, isAutoMode, timerOn>>
    /\ UNCHANGED <<roomStatus, called_numbers, playerRows, markRequests,
                   winRequests, calledNumbers, roomPlayers, currentPlayer,
                   playerMarkedNumbers, hasWon, winClicks>>
    /\ UNCHANGED <<engineVars, timingVars, serverVars, joinVars>>

\* the room subscription of the dashboard, and the effect that syncs the
\* controls with the room
ReceiveRoomUpdate ==
    /\ room # NoConfig
    /\ channel[Host] # <<>>
    /\ Head(channel[Host]).table = "rooms"
    /\ room' = Head(channel[Host]).new.config
    /\ isAutoMode' = room'.autoCall.enabled
    /\ isPaused' = room'.isPaused
    /\ channel' = [channel EXCEPT ![Host] = Tail(@)]
    /\ countdown' = countdownEffect(\/ isAutoMode' # isAutoMode
                                    \/ isPaused' # isPaused
                                    \/ autoInterval(room') # autoInterval(room),
                                    isAutoMode', isPaused',
                                    winnerPlayers(roomPlayers[Host]),
                                    autoInterval(room'), countdown)
    /\ UNCHANGED <<demoMode, config>>
    /\ UNCHANGED <<roomStatus, called_numbers, playerRows, markRequests,
                   winRequests, calledNumbers, roomPlayers, currentPlayer,
                   playerMarkedNumbers, hasWon, winClicks>>
    /\ UNCHANGED <<engineVars, timingVars, serverVars, joinVars>>
    /\ TimerEffect

NextSetup ==
    \/ \E value \in ExpectedPlayersRange : SlideExpectedPlayers(value)
    \/ \E value \in MeetingDurationRange : SlideMeetingDuration(value)
    \/ \E checked \in BOOLEAN : HandleCheckboxChange(checked)
    \/ CreateRoom
    \/ StartDashboard
    \/ ToggleAutoMode
    \/ TogglePause
    \/ ReceiveRoomUpdate

SpecSetup == InitSetup /\ [][NextSetup]_vars

----------------------------------------------------------------------------
(* The host calls numbers: the button, the auto-call timer, the updates *)

\* the number callNextNumber draws from the numbers the dashboard holds as
\* not called, for the position that Math.random gives
drawnNumber(availableNumbers, randomIndex) == availableNumbers[randomIndex + 1]

\* the positions Math.floor(Math.random() * length) can give, of those
\* whose number is followed
RandomIndexes(availableNumbers, pool) ==
    {i \in 0..(Len(availableNumbers) - 1) : availableNumbers[i + 1] \in pool}

\* an autoBotMarkNumber invocation waiting for its timeout
ScheduledRun(number) ==
    [calledNumber |-> number, started |-> FALSE, bots |-> <<>>, next |-> 1,
     awaits |-> 0]

\* callNextNumber with SupabaseService.callNumber: the row is inserted and
\* sent to the subscribed pages; in demo mode autoBotMarkNumber is set to run
\* after its timeout; in auto mode the countdown starts over
callNextNumber(randomIndex) ==
    LET availableNumbers == getAvailableNumbers(calledNumbers[Host])
        number == drawnNumber(availableNumbers, randomIndex)
    IN  /\ availableNumbers # <<>>
        /\ room # NoConfig
        /\ Len(channel[Host]) < MaxInFlight
        /\ called_numbers' = Append(called_numbers, number)
        /\ channel' = Broadcast(InsertNumber(number))
        /\ botRuns' = IF room.demoMode
                       THEN Append(botRuns, ScheduledRun(number))
                       ELSE botRuns
        /\ countdown' = IF isAutoMode THEN autoInterval(room) ELSE countdown

\* the settings of the room whose calls are followed, and what the setup
\* form stored for them
CallsConfig ==
    createRoom(setupRoomConfig(CallsExpectedPlayers, 30, FALSE,
                               calculateCallFrequency(Number(CallsExpectedPlayers),
                                                      Number(30))))

\* the player of the room: the middle row of the card is called and marked
\* and the MYNGO button clicked
Caller == 1

\* a room in play with the dashboard open, early in the game or with only
\* the followed numbers left to call
InitCalls ==
    /\ EngineIdle
    /\ SetupDefaults
    /\ roomStatus = "waiting"
    /\ called_numbers \in {MiddleRow(Caller), ArrayOf((1..75) \ DrawPool)}
    /\ playerRows = [p \in {Caller} |->
                        PlayerRow(p, PlayerCard(p), MiddleRow(p), FALSE)]
    /\ markRequests = {}
    /\ winRequests = {Caller}
    /\ channel = [q \in {Host} |-> <<>>]
    /\ calledNumbers = [q \in {Host} |-> Reverse(called_numbers)]
    /\ roomPlayers = [q \in {Host} |-> playerRows]
    /\ currentPlayer = <<>>
    /\ playerMarkedNumbers = <<>>
    /\ hasWon = <<>>
    /\ winClicks = <<>>
    /\ demoMode = FALSE
    /\ config = CallsConfig
    /\ room = config
    /\ isAutoMode = config.autoCall.enabled
    /\ isPaused = config.isPaused
    /\ countdown = autoInterval(config)
    /\ timerOn = TRUE
    /\ finishing = {}
    /\ botRuns = <<>>
    /\ joinCall = NotCalled
    /\ joinOutcome = NotCalled

\* the host clicks Call Next Number
ManualCall(randomIndex) ==
    /\ callNextNumber(randomIndex)
    /\ UNCHANGED <<roomStatus, playerRows, markRequests, winRequests,
                   calledNumbers, roomPlayers, currentPlayer,
                   playerMarkedNumbers, hasWon, winClicks>>
    /\ UNCHANGED <<demoMode, config, room, isAutoMode, isPaused, timerOn>>
    /\ UNCHANGED <<engineVars, timingVars, finishing, joinVars>>

\* the interval timer fires and the countdown has not run out
TimerTick ==
    /\ timerOn
    /\ countdown > 1
    /\ countdown' = countdown - 1
    /\ UNCHANGED <<demoMode, config, room, isAutoMode, isPaused, timerOn>>
    /\ UNCHANGED <<engineVars, timingVars, gameVars, serverVars, joinVars>>

\* the interval timer fires and the countdown has run out: callNextNumber
TimerCall(randomIndex) ==
    /\ timerOn
    /\ countdown <= 1
    /\ callNextNumber(randomIndex)
    /\ UNCHANGED <<roomStatus, playerRows, markRequests, winRequests,
                   calledNumbers, roomPlayers, currentPlayer,
                   playerMarkedNumbers, hasWon, winClicks>>
    /\ UNCHANGED <<demoMode, config, room, isAutoMode, isPaused, timerOn>>
    /\ UNCHANGED <<engineVars, timingVars, finishing, joinVars>>

\* the called numbers subscription of the dashboard, and the auto-call effect
HostReceiveCalledNumber ==
    /\ channel[Host] # <<>>
    /\ Head(channel[Host]).table = "called_numbers"
    /\ calledNumbers' = [calledNumbers EXCEPT
                            ![Host] = <<Head(channel[Host]).new.number>> \o @]
    /\ channel' = [channel EXCEPT ![Host] = Tail(@)]
    /\ UNCHANGED <<roomStatus, called_numbers, playerRows, markRequests,
                   winRequests, roomPlayers, currentPlayer, playerMarkedNumbers,
                   hasWon, winClicks>>
    /\ UNCHANGED <<demoMode, config, room, isAutoMode, isPaused, countdown>>
    /\ UNCHANGED <<engineVars, timingVars, serverVars, joinVars>>
    /\ TimerEffect

\* the players subscription of the dashboard, and the effects on the timer
\* and the countdown
HostReceivePlayerUpdate ==
    /\ channel[Host] # <<>>
    /\ Head(channel[Host]).table = "players"
    /\ LET new == Head(channel[Host]).new
       IN  roomPlayers' =
              [roomPlayers EXCEPT
                  ![Host] = [q \in DOMAIN @ |-> IF @[q].id = new.id THEN new ELSE @[q]]]
    /\ channel' = [channel EXCEPT ![Host] = Tail(@)]
    /\ countdown' =
          countdownEffect(Cardinality(winnerPlayers(roomPlayers'[Host]))
                             # Cardinality(winnerPlayers(roomPlayers[Host])),
                          isAutoMode, isPaused, winnerPlayers(roomPlayers'[Host]),
                          autoInterval(room), countdown)
    /\ UNCHANGED <<roomStatus, called_numbers, playerRows, markRequests,
                   winRequests, calledNumbers, currentPlayer, playerMarkedNumbers,
                   hasWon, winClicks>>
    /\ UNCHANGED <<demoMode, config, room, isAutoMode, isPaused>>
    /\ UNCHANGED <<engineVars, timingVars, serverVars, joinVars>>
    /\ TimerEffect

NextCalls ==
    \/ \E randomIndex \in RandomIndexes(getAvailableNumbers(calledNumbers[Host]), DrawPool) :
          ManualCall(randomIndex)
    \/ TimerTick
    \/ \E randomIndex \in RandomIndexes(getAvailableNumbers(calledNumbers[Host]), DrawPool) :
          TimerCall(randomIndex)
    \/ HostReceiveCalledNumber
    \/ HostReceivePlayerUpdate
    \/ ReceiveRoomUpdate
    \/ ToggleAutoMode
    \/ TogglePause
    \/ \E playerId \in winRequests : MarkPlayerAsWinner(playerId)
    \/ \E playerId \in finishing : UpdateRoomStatus(playerId)

SpecCalls == InitCalls /\ [][NextCalls]_vars

----------------------------------------------------------------------------
(* A demo room: the host's calls and the bots of autoBotMarkNumber *)

\* the bots of the room as autoBotMarkNumber selects them
botsOf(playerRows_) == SelectSeq(playerRows_, LAMBDA row : row.is_bot)

\* autoBotMarkNumber marks the number for the bot of its selection
botShouldMark(bot, calledNumber) ==
    /\ ~bot.is_winner
    /\ calledNumber \in CardNumbers(bot.card)
    /\ calledNumber \notin SetOf(bot.marked_numbers)

\* the first bot at or after position from that autoBotMarkNumber marks the
\* number for; past the end when there is none
nextToMark(bots, calledNumber, from) ==
    Min({i \in from..Len(bots) : botShouldMark(bots[i], calledNumber)}
        \cup {Len(bots) + 1})

\* checkBotForWin: TRUE when it goes on to markPlayerAsWinner
checkBotForWin(card_, markedNumbers_) == checkWin(card_, markedNumbers_).hasWin

\* the human player of the demo room: the N column of the card is called and
\* marked and the MYNGO button clicked
Human == 4

\* the numbers called when the demo room is first observed: the middle row of
\* the first bot but for its last number, and the N column of the human
DemoCalledAtFirst == SubSeq(MiddleRow(1), 1, 3) \o PlayerCard(2).N

\* the numbers of the card among the called ones, in the order of the calls
MarkedOf(card_, called) ==
    SelectSeq(called, LAMBDA n : n \in CardNumbers(card_))

\* the config of the demo room, its auto mode switched off by the host
DemoConfig ==
    Spread(createRoom(setupRoomConfig(CallsExpectedPlayers, 30, TRUE,
                         calculateCallFrequency(Number(CallsExpectedPlayers),
                                                Number(30)))),
           [autoCall |-> [enabled |-> FALSE]])

\* a demo room in play with the dashboard open: every bot has marked the
\* called numbers of its card
InitDemo ==
    /\ EngineIdle
    /\ SetupDefaults
    /\ roomStatus = "waiting"
    /\ called_numbers = DemoCalledAtFirst
    /\ playerRows =
          [i \in 1..Human |->
              IF i = Human
              THEN PlayerRow(i, PlayerCard(2), PlayerCard(2).N, FALSE)
              ELSE [addDemoBots(0).rows[i] EXCEPT
                       !.marked_numbers = MarkedOf(addDemoBots(0).rows[i].card,
                                                   DemoCalledAtFirst)]]
    /\ markRequests = {}
    /\ winRequests = {Human}
    /\ channel = [q \in {Host} |-> <<>>]
    /\ calledNumbers = [q \in {Host} |-> Reverse(called_numbers)]
    /\ roomPlayers = [q \in {Host} |-> playerRows]
    /\ currentPlayer = <<>>
    /\ playerMarkedNumbers = <<>>
    /\ hasWon = <<>>
    /\ winClicks = <<>>
    /\ demoMode = TRUE
    /\ config = DemoConfig
    /\ room = config
    /\ isAutoMode = FALSE
    /\ isPaused = FALSE
    /\ countdown = autoInterval(config)
    /\ timerOn = FALSE
    /\ finishing = {}
    /\ botRuns = <<>>
    /\ joinCall = NotCalled
    /\ joinOutcome = NotCalled

\* the timeout of a call has passed: autoBotMarkNumber selects the bots and
\* looks for the first to mark
BotRunStart(r) ==
    /\ ~botRuns[r].started
    /\ LET bots == botsOf(playerRows)
       IN  botRuns' = [botRuns EXCEPT
                          ![r] = [@ EXCEPT
                                     !.started = TRUE,
                                     !.bots = bots,
                                     !.next = nextToMark(bots,
                                                         botRuns[r].calledNumber, 1)]]
    /\ UNCHANGED <<engineVars, timingVars, gameVars, hostVars, finishing,
                   joinVars>>

\* autoBotMarkNumber writes the marked numbers of the next bot it marks for;
\* checkBotForWin, and on a win markPlayerAsWinner as far as its write of
\* is_winner; then the loop looks for the bot after
BotRunStep(r) ==
    LET run == botRuns[r]
        bot == run.bots[run.next]
        newMarkedNumbers == Append(bot.marked_numbers, run.calledNumber)
        wins == checkBotForWin(bot.card, newMarkedNumbers)
        marked == [playerRows[bot.id] EXCEPT !.marked_numbers = newMarkedNumbers]
        winner == [marked EXCEPT !.is_winner = TRUE]
    IN  /\ run.started
        /\ run.next <= Len(run.bots)
        /\ run.awaits \notin finishing
        /\ playerRows' = [playerRows EXCEPT ![bot.id] = IF wins THEN winner ELSE marked]
        /\ channel' =
              IF wins
              THEN [q \in DOMAIN channel |->
                       channel[q] \o <<UpdatePlayer(marked), UpdatePlayer(winner)>>]
              ELSE Broadcast(UpdatePlayer(marked))
        /\ finishing' = IF wins THEN finishing \cup {bot.id} ELSE finishing
        /\ botRuns' = [botRuns EXCEPT
                          ![r] = [@ EXCEPT
                                     !.next = nextToMark(run.bots, run.calledNumber,
                                                         run.next + 1),
                                     !.awaits = IF wins THEN bot.id ELSE 0]]
        /\ UNCHANGED <<roomStatus, called_numbers, markRequests, winRequests,
                       calledNumbers, roomPlayers, currentPlayer,
                       playerMarkedNumbers, hasWon, winClicks>>
        /\ UNCHANGED <<engineVars, timingVars, hostVars, joinVars>>

NextDemo ==
    \/ \E randomIndex \in RandomIndexes(getAvailableNumbers(calledNumbers[Host]),
                                        DemoPool) :
          Len(botRuns) < MaxDemoCalls /\ ManualCall(randomIndex)
    \/ HostReceiveCalledNumber
    \/ HostReceivePlayerUpdate
    \/ \E r \in DOMAIN botRuns : BotRunStart(r)
    \/ \E r \in DOMAIN botRuns : BotRunStep(r)
    \/ \E playerId \in winRequests : MarkPlayerAsWinner(playerId)
    \/ \E playerId \in finishing : UpdateRoomStatus(playerId)

SpecDemo == InitDemo /\ [][NextDemo]_vars

\* a markPlayerAsWinner that has written is_winner goes on to its
\* updateRoomStatus: the awaited request returns and the function continues
FairSpecDemo ==
    SpecDemo /\ WF_vars(\E playerId \in finishing : UpdateRoomStatus(playerId))

----------------------------------------------------------------------------
(* joinRoom for every course of its attempts *)

\* getRoomByCode finds no row
NotFound == [isNull |-> TRUE]

\* room.config?.roomClosed as a condition
roomClosed(room_) ==
    "roomClosed" \in DOMAIN room_.config /\ room_.config.roomClosed

\* joinRoom that turns away cancelled rooms only
statusRejectedCancelledOnly(status) ==
    IF status = "cancelled" THEN "This game has been cancelled" ELSE ""

\* the checks of the status: the message of the error thrown, "" for none
statusRejected(status) ==
    IF status = "cancelled" THEN "This game has been cancelled"
    ELSE IF status = "finished" THEN "This game has already finished"
    ELSE ""

\* the attempts of the retry loop
maxRetries == 3

\* the retry loop from the given attempt on, fetches[k] being what
\* getRoomByCode returns at attempt k: the error thrown, or the room the
\* loop ends with
RECURSIVE retryLoop(_, _)
retryLoop(fetches, attempt) ==
    LET room_ == fetches[attempt]
    IN  IF room_ = NotFound
        THEN IF attempt = maxRetries
             THEN [error |-> "Room not found", room |-> NotFound]
             ELSE retryLoop(fetches, attempt + 1)
        ELSE IF ~roomClosed(room_)
             THEN [error |-> "", room |-> room_]
             ELSE IF attempt < maxRetries
                  THEN retryLoop(fetches, attempt + 1)
                  ELSE [error |-> "", room |-> room_]

\* joinRoom thrown out of with the message
JoinFailed(message, s) ==
    [error |-> message, inserted |-> <<>>, configs |-> <<>>, rng |-> s]

\* SupabaseService.joinRoom for a room whose players have the given names:
\* the error thrown ("" for none), the rows inserted into players, the
\* configs written to the room, and the random source afterwards
joinRoom(fetches, names, playerName, s) ==
    LET end == retryLoop(fetches, 1)
        room_ == end.room
        existingPlayers == {n \in names : n = playerName}
        newPlayerCount == Cardinality(names) + 1
        currentMax == IF "maxPlayersEver" \in DOMAIN room_.config
                      THEN room_.config.maxPlayersEver
                      ELSE 0
        generated == generateMyngoCard(s)
    IN  IF end.error # ""
        THEN JoinFailed(end.error, s)
        ELSE IF roomClosed(room_)
        THEN JoinFailed("This room is currently closed to new players", s)
        ELSE IF statusRejected(room_.status) # ""
        THEN JoinFailed(statusRejected(room_.status), s)
        ELSE IF existingPlayers # {}
        THEN JoinFailed("This nickname is already taken in this room", s)
        ELSE [error |-> "",
              inserted |-> <<[name |-> playerName,
                              card |-> generated.card,
                              marked_numbers |-> <<>>,
                              is_bot |-> FALSE,
                              is_winner |-> FALSE]>>,
              configs |-> IF newPlayerCount > currentMax
                          THEN <<Spread(room_.config,
                                        [maxPlayersEver |-> newPlayerCount])>>
                          ELSE <<>>,
              rng |-> generated.rng]

\* what getRoomByCode can return: no row, or the room with one of its
\* statuses and its config without roomClosed, or with it set either way
RoomStatuses == {"waiting", "active", "finished", "cancelled"}
RoomConfigs ==
    {[demoMode |-> FALSE],
     [demoMode |-> FALSE, roomClosed |-> FALSE],
     [demoMode |-> FALSE, roomClosed |-> TRUE],
     [demoMode |-> FALSE, roomClosed |-> FALSE, maxPlayersEver |-> 1]}
Fetched ==
    {NotFound} \cup {[status |-> s, config |-> c] : s \in RoomStatuses, c \in RoomConfigs}

\* the names of the players of the room and of the player who joins
RoomNames == {{}, {"ann"}}
JoinNames == {"ann", "bob"}

InitJoin ==
    /\ EngineIdle
    /\ SetupDefaults
    /\ NoHost
    /\ roomStatus = "none"
    /\ called_numbers = <<>>
    /\ playerRows = <<>>
    /\ markRequests = {}
    /\ winRequests = {}
    /\ channel = <<>>
    /\ calledNumbers = <<>>
    /\ roomPlayers = <<>>
    /\ currentPlayer = <<>>
    /\ playerMarkedNumbers = <<>>
    /\ hasWon = <<>>
    /\ winClicks = <<>>
    /\ finishing = {}
    /\ botRuns = <<>>
    /\ joinCall \in [fetches : [1..maxRetries -> Fetched],
                     names : RoomNames,
                     playerName : JoinNames]
    /\ joinOutcome = NotCalled

JoinRoom ==
    /\ joinOutcome = NotCalled
    /\ joinOutcome' = joinRoom(joinCall.fetches, joinCall.names,
                               joinCall.playerName, rng)
    /\ rng' = joinOutcome'.rng
    /\ UNCHANGED <<card, markedNumbers, winCheck, closeToWin, joinCall>>
    /\ UNCHANGED <<timingVars, gameVars, hostVars, serverVars>>

NextJoin == JoinRoom

SpecJoin == InitJoin /\ [][NextJoin]_vars

----------------------------------------------------------------------------
(* checkWin applied again as the marks of a player change *)

\* the marked sets a player's page holds one after another
PlayerMarkedSets(c) == MarkedSetsUpTo(c, GrowLines, GrowMissing, 0, 0)

\* a player's page with its card and nothing marked
InitMarks ==
    /\ rng = 0
    /\ card \in ValidCards
    /\ markedNumbers = <<>>
    /\ winCheck = NotCalled
    /\ closeToWin = NotCalled
    /\ SetupDefaults
    /\ NoRoom
    /\ NoHost

\* markedNumbers is set to the numbers of T and checkWin is applied to it
CheckMarks(T) ==
    /\ markedNumbers' = ArrayOf(T)
    /\ winCheck' = checkWin(card, markedNumbers')
    /\ UNCHANGED <<rng, card, closeToWin>>
    /\ UNCHANGED <<timingVars, gameVars, hostVars, serverVars, joinVars>>

NextMarks == \E T \in PlayerMarkedSets(card) : CheckMarks(T)

SpecMarks == InitMarks /\ [][NextMarks]_vars

----------------------------------------------------------------------------
(* Properties *)

\* the marked set of the state
Marked == SetOf(markedNumbers)

\* every cell of the line is the free cell or a marked number
Complete(line) == LineNumbers(card, line) \subseteq Marked

\* the number of cells of the line that are neither free nor marked
Open(line) == Cardinality(LineNumbers(card, line) \ Marked)

\* the line a win result names
ReportedLine(w) ==
    IF w.pattern = "row" THEN RowLine(w.line)
    ELSE IF w.pattern = "column" THEN ColumnLine(w.line)
    ELSE IF w.line = 0 THEN MainDiagonal
    ELSE AntiDiagonal

WinCalled == winCheck # NotCalled

CloseCalled == closeToWin # NotCalled

NoWin == [hasWin |-> FALSE]

\* C1: on a well-formed card checkWin reports a win exactly when one of the
\* 12 lines is complete for the marked set, and the (pattern, line) it
\* reports names a complete line.
C1_WinIffSomeLineComplete ==
    (WellFormed(card) /\ WinCalled) =>
        /\ winCheck.hasWin <=> \E line \in AllLines : Complete(line)
        /\ winCheck.hasWin =>
              /\ winCheck.pattern \in {"row", "column", "diagonal"}
              /\ winCheck.line \in (IF winCheck.pattern = "diagonal"
                                    THEN 0..1 ELSE 0..4)
              /\ Complete(ReportedLine(winCheck))

\* a win that only the anti diagonal gives has been reported
C1_Witness ==
    /\ WellFormed(card) /\ WinCalled
    /\ winCheck = [hasWin |-> TRUE, pattern |-> "diagonal", line |-> 1]
    /\ \A line \in AllLines : Complete(line) <=> line = AntiDiagonal

\* C2: a generated card has 5 numbers of 1..15 in M, 5 of 16..30 in Y, 4 of
\* 31..45 in N, 5 of 46..60 in G and 5 of 61..75 in O, and no number twice.
C2_GeneratedCardShape ==
    card # NullCard =>
        /\ DOMAIN card = SetOf(Columns)
        /\ \A k \in DOMAIN Columns :
              LET column == card[Columns[k]]
              IN  /\ Len(column) = (IF k = 3 THEN 4 ELSE 5)
                  /\ \A i \in DOMAIN column :
                        column[i] \in (15 * (k - 1) + 1)..(15 * k)
        /\ \A k1, k2 \in DOMAIN Columns :
              \A i1 \in DOMAIN card[Columns[k1]], i2 \in DOMAIN card[Columns[k2]] :
                 card[Columns[k1]][i1] = card[Columns[k2]][i2]
                    => (k1 = k2 /\ i1 = i2)

\* a card has been generated whose columns are not the first numbers of their
\* ranges
C2_Witness ==
    /\ card # NullCard
    /\ card.M # <<1, 2, 3, 4, 5>>
    /\ card.N # <<31, 32, 33, 34>>
    /\ card.O[5] = 75

\* C3: checkWin reports the first complete line in the order rows 0..4,
\* columns 0..4, main diagonal, anti diagonal.
C3_FirstCompleteLineInOrder ==
    (WellFormed(card) /\ WinCalled) =>
        LET rows == {r \in 0..4 : Complete(RowLine(r))}
            cols == {col \in 0..4 : Complete(ColumnLine(col))}
        IN  IF rows # {}
            THEN winCheck = [hasWin |-> TRUE, pattern |-> "row", line |-> Min(rows)]
            ELSE IF cols # {}
            THEN winCheck = [hasWin |-> TRUE, pattern |-> "column", line |-> Min(cols)]
            ELSE IF Complete(MainDiagonal)
            THEN winCheck = [hasWin |-> TRUE, pattern |-> "diagonal", line |-> 0]
            ELSE IF Complete(AntiDiagonal)
            THEN winCheck = [hasWin |-> TRUE, pattern |-> "diagonal", line |-> 1]
            ELSE winCheck = NoWin

\* two rows are complete at once and the lower index has been reported
C3_Witness ==
    /\ WellFormed(card) /\ WinCalled
    /\ Cardinality({r \in 0..4 : Complete(RowLine(r))}) = 2
    /\ winCheck.hasWin /\ winCheck.pattern = "row"
    /\ winCheck.line = Min({r \in 0..4 : Complete(RowLine(r))})

\* C4: marking exactly the numbers of row r makes checkWin report a win with
\* pattern 'row' and line r, for every row, row 2 included.
C4_ExactRowWins ==
    (WellFormed(card) /\ WinCalled) =>
        \A r \in 0..4 :
            Marked = LineNumbers(card, RowLine(r)) =>
                winCheck = [hasWin |-> TRUE, pattern |-> "row", line |-> r]

\* exactly the four numbers of row 2 are marked and checkWin has answered
C4_Witness ==
    /\ WellFormed(card) /\ WinCalled
    /\ Marked = LineNumbers(card, RowLine(2))
    /\ Cardinality(Marked) = 4

\* C5: marking the numbers of a row except one makes isCloseToWin return
\* true and checkWin report no win.
C5_RowMinusOne ==
    WellFormed(card) =>
        \A r \in 0..4 : \A x \in LineNumbers(card, RowLine(r)) :
            Marked = LineNumbers(card, RowLine(r)) \ {x} =>
                /\ CloseCalled => closeToWin = [result |-> TRUE]
                /\ WinCalled => winCheck = NoWin

\* three of the four numbers of row 2 are marked and both have answered
C5_Witness ==
    /\ WellFormed(card) /\ WinCalled /\ CloseCalled
    /\ Marked \subseteq LineNumbers(card, RowLine(2))
    /\ Cardinality(Marked) = 3

\* C6: isCloseToWin returns true exactly when one of the 12 lines has
\* exactly one cell that is neither the free cell nor marked.
C6_CloseIffOneCellOpen ==
    (WellFormed(card) /\ CloseCalled) =>
        (closeToWin = [result |-> (\E line \in AllLines : Open(line) = 1)])

\* only the anti diagonal is one cell away and isCloseToWin has answered true
C6_Witness ==
    /\ WellFormed(card) /\ CloseCalled
    /\ closeToWin = [result |-> TRUE]
    /\ \A line \in AllLines : Open(line) = 1 <=> line = AntiDiagonal

\* C7: checkWin reports no win when fewer than 4 numbers of the card are
\* marked, in particular for the empty marked set.
C7_FewerThanFourNoWin ==
    (WellFormed(card) /\ WinCalled) =>
        (Cardinality(Marked \cap CardNumbers(card)) < 4 => winCheck = NoWin)

\* three numbers of one line that holds the free cell are marked
C7_Witness ==
    /\ WellFormed(card) /\ WinCalled
    /\ Cardinality(Marked \cap CardNumbers(card)) = 3
    /\ \E line \in AllLines : Open(line) = 1

\* C8: checkWin reports a win when all 24 numbers of the card are marked.
C8_FullCardWins ==
    (WellFormed(card) /\ WinCalled) =>
        (CardNumbers(card) \subseteq Marked => winCheck.hasWin)

\* the 24 numbers of the card are the marked list and checkWin has answered
C8_Witness ==
    /\ WellFormed(card) /\ WinCalled
    /\ Marked = CardNumbers(card)
    /\ Len(markedNumbers) = 24

\* C9: for a null card or a card with a missing column checkWin reports no
\* win and isCloseToWin returns false, and neither raises.
C9_MissingColumnFailsClosed ==
    InvalidStructure(card) =>
        /\ WinCalled => (winCheck = NoWin /\ winCheck # Thrown)
        /\ CloseCalled => (closeToWin = [result |-> FALSE] /\ closeToWin # Thrown)

\* a card without its N column and a marked list that would complete a line
\* of the full card have been given to both classifiers
C9_Witness ==
    /\ card # NullCard /\ "N" \notin DOMAIN card
    /\ Len(markedNumbers) >= 4
    /\ WinCalled /\ CloseCalled

\* the card has its five columns and one of them has the wrong length
WrongLength(c) == ~InvalidStructure(c) /\ ~WellFormed(c)

\* C10: for a card with five columns of which one has the wrong length
\* checkWin reports no win and isCloseToWin returns false.
C10_WrongLengthFailsClosed ==
    WrongLength(card) =>
        /\ WinCalled => winCheck = NoWin
        /\ CloseCalled => closeToWin = [result |-> FALSE]

\* C11: checkWin and isCloseToWin depend on the card and on the set of
\* marked numbers only: a call with the marked list in any order and with
\* duplicates returns what the call with the ascending duplicate-free list of
\* the same numbers returns.
C11_ResultDependsOnMarkedSetOnly ==
    /\ WinCalled => winCheck = checkWin(card, ArrayOf(Marked))
    /\ CloseCalled => closeToWin = isCloseToWin(card, ArrayOf(Marked))

\* a win has been reported for a list that holds the 24 numbers of the card
\* twice, not in ascending order, and the near-win call has answered too
C11_Witness ==
    /\ WinCalled /\ CloseCalled
    /\ winCheck.hasWin
    /\ Len(markedNumbers) = 48 /\ Cardinality(Marked) = 24
    /\ markedNumbers[1] > markedNumbers[2]

----------------------------------------------------------------------------
(* Properties of the timing functions *)

FrequencyCalled == callFrequency # NotCalled

NeededCalled == callsNeeded # NotCalled

SecondsCalled == secondsBetweenCalls # NotCalled

\* x is an integer of lo..hi
IntegerIn(x, lo, hi) == IsFinite(x) /\ x.den = 1 /\ x.num \in lo..hi

\* C12: for every player count of 10..100 and every duration of 15..90 minutes
\* that the setup sliders allow, player counts of 90 or more included,
\* calculateCallFrequency returns an integer of 10..90.
C12_CallFrequencyInRange ==
    (FrequencyCalled /\ players \in 10..100 /\ meetingMinutes \in 15..90)
        => IntegerIn(callFrequency, 10, 90)

C12_Witness ==
    /\ FrequencyCalled
    /\ players = 90
    /\ meetingMinutes = 15
    /\ callFrequency = Number(90)

\* the integer v is the quotient n / d (d > 0) rounded to the nearest integer
\* and clamped to lo..hi
RoundedAndClamped(v, n, d, lo, hi) ==
    /\ v \in lo..hi
    /\ v > lo => (2 * v - 1) * d <= 2 * n
    /\ v < hi => 2 * n < (2 * v + 1) * d

\* C13: when 45 - 0.5 * players is positive, calculateCallFrequency returns
\* round((minutes * 60 * 0.90) / (45 - 0.5 * players)) clamped to 10..90;
\* 10 players and 15 minutes give 20.
C13_CallFrequencyFormula ==
    /\ (FrequencyCalled /\ 2 * 45 - players > 0)
          => /\ IntegerIn(callFrequency, 10, 90)
             /\ RoundedAndClamped(callFrequency.num, meetingMinutes * 60 * 9 * 2,
                                  10 * (2 * 45 - players), 10, 90)
    /\ (FrequencyCalled /\ players = 10 /\ meetingMinutes = 15)
          => callFrequency = Number(20)

C13_Witness ==
    /\ FrequencyCalled
    /\ players = 10
    /\ meetingMinutes = 15
    /\ callFrequency = Number(20)

\* 10 * log10(p) >= j, for an integer p of 1..5011
TenthsReached(p, j) ==
    IF j <= 0 THEN TRUE
    ELSE IF j > 36 THEN FALSE
    ELSE p >= PowerOfTenTenths[j + 1]

\* C14: for a player count of at least 1, calculateCallsNeeded returns
\* ceil(50 - 10 * log10(players)) clamped to 15..75; 10 players need 40 calls.
C14_CallsNeededFormula ==
    /\ (NeededCalled /\ players >= 1)
          => /\ IntegerIn(callsNeeded, 15, 75)
             /\ callsNeeded.num < 75 => TenthsReached(players, 50 - callsNeeded.num)
             /\ callsNeeded.num > 15 => ~TenthsReached(players, 51 - callsNeeded.num)
    /\ (NeededCalled /\ players = 10) => callsNeeded = Number(40)

C14_Witness ==
    /\ NeededCalled
    /\ players = 10
    /\ callsNeeded = Number(40)

\* C15: calculateCallsNeeded never increases with the player count: for
\* 1 <= a <= b, the calls needed for b players are at most those for a.
C15_CallsNeededNonIncreasing ==
    (NeededCalled /\ players >= 1)
        => \A a \in {x \in PlayerInputs : 1 <= x /\ x <= players} :
              ~Less(calculateCallsNeeded(Number(a)), callsNeeded)

C15_Witness ==
    /\ NeededCalled
    /\ players = 100
    /\ callsNeeded = Number(30)
    /\ Less(callsNeeded, calculateCallsNeeded(Number(99)))

\* C16: for callsNeeded > 0 and minutes >= 0, calculateSecondsBetweenCalls
\* returns round((minutes * 60 * 0.85) / callsNeeded) clamped to 5..120, also
\* when callsNeeded is the result of calculateCallsNeeded.
C16_SecondsBetweenCallsFormula ==
    (SecondsCalled /\ IsFinite(callsNeeded) /\ callsNeeded.num > 0
                   /\ meetingMinutes >= 0)
        => /\ IntegerIn(secondsBetweenCalls, 5, 120)
           /\ RoundedAndClamped(secondsBetweenCalls.num,
                                meetingMinutes * 60 * 17 * callsNeeded.den,
                                20 * callsNeeded.num, 5, 120)

\* the setup page's defaults: 25 players need 37 calls, and 30 minutes give
\* 1530 / 37 = 41.35... seconds between them
C16_Witness ==
    /\ SecondsCalled
    /\ meetingMinutes = 30
    /\ callsNeeded = calculateCallsNeeded(Number(players))
    /\ secondsBetweenCalls = Number(41)

\* C17: the timing functions never return a result derived from a NaN or
\* infinite intermediate value: a player count below 1 given to
\* calculateCallsNeeded, or calls needed that are not positive given to
\* calculateSecondsBetweenCalls, are rejected or clamped before computing.
\* (Neither function has a path that signals an error, so every call returns
\* the clamp of its intermediate value.)
C17_InvalidInputRejected ==
    /\ NeededCalled => IsFinite(callsNeededFormula(Number(players)))
    /\ SecondsCalled
          => IsFinite(secondsPerCallNeeded(Number(meetingMinutes), callsNeeded))

\* C30: for a meeting of 15..90 minutes calculateCallFrequency is
\* non-decreasing in the player count over 10..100: one more expected player
\* never gives a shorter interval between calls
C30_CallFrequencyNonDecreasing ==
    (FrequencyCalled /\ players \in 11..100 /\ meetingMinutes \in 15..90)
        => ~Less(callFrequency,
                 calculateCallFrequency(Number(players - 1), Number(meetingMinutes)))

----------------------------------------------------------------------------
(* Properties of a room in play *)

\* the list holds no number twice
NoDuplicates(list) == Cardinality(SetOf(list)) = Len(list)

\* the players recorded as winners in the players table
Winners == {p \in Players : playerRows[p].is_winner}

\* C18: every number a player has marked is a number of that player's card
\* that has been called in the room (and has reached the player's page); a
\* click on a cell whose number is not called, on the WILD cell or on a marked
\* cell adds nothing, so no list holds WILD, an uncalled number or a number
\* twice. The same holds for the marked_numbers stored for the player.
C18_MarkedNumbersAreCalled ==
    \A p \in Players :
        /\ SetOf(playerMarkedNumbers[p]) \subseteq CardNumbers(currentPlayer[p].card)
        /\ SetOf(playerMarkedNumbers[p]) \subseteq SetOf(calledNumbers[p])
        /\ SetOf(calledNumbers[p]) \subseteq SetOf(called_numbers)
        /\ NoDuplicates(playerMarkedNumbers[p])
        /\ SetOf(playerRows[p].marked_numbers) \subseteq SetOf(playerMarkedNumbers[p])

\* a player has marked a number called after the room was first observed,
\* while the call has not reached another player's page, where a click on
\* the same number is refused
C18_Witness ==
    \E p \in Players, q \in Players, n \in CallPool :
        /\ n \in SetOf(playerMarkedNumbers[p])
        /\ n \in CardNumbers(currentPlayer[q].card)
        /\ n \notin SetOf(calledNumbers[q])
        /\ n \notin SetOf(playerMarkedNumbers[q])

C20_AtMostOneWinner == Cardinality(Winners) <= 1

----------------------------------------------------------------------------
(* Properties of the host's pages *)

\* C21: a room created through the setup form starts in manual mode: as long
\* as the host has not opened the dashboard, and so cannot have touched the
\* auto mode switch, the stored config has autoCall.enabled = false
C21_CreatedRoomIsManual ==
    (config # NoConfig /\ room = NoConfig) => config.autoCall.enabled = FALSE

\* C22: no number is called twice in a room: the called_numbers table, which
\* holds every number callNextNumber has passed to callNumber, has only
\* numbers of 1..75 and none of them twice
C22_NoNumberCalledTwice ==
    /\ \A i \in DOMAIN called_numbers : called_numbers[i] \in 1..75
    /\ NoDuplicates(called_numbers)

\* the conditions of the auto-call timer as the dashboard holds them: auto
\* mode on, not paused, no winner among its players, a number left to call
AutoCallAllowed ==
    /\ isAutoMode
    /\ ~isPaused
    /\ winnerPlayers(roomPlayers[Host]) = {}
    /\ getAvailableNumbers(calledNumbers[Host]) # <<>>

\* C23: the auto-call timer is set, and so ticks and calls, only while auto
\* mode is on, the game is not paused, no player of the dashboard is a winner
\* and a number is left to call; once one of these stops holding the timer is
\* cleared
C23_TimerOnlyWhileAllowed ==
    (room # NoConfig /\ timerOn) => AutoCallAllowed

\* the timer has counted down and a winner has then stopped it, with auto
\* mode still on and the game not paused
C23_Witness ==
    /\ room # NoConfig
    /\ ~timerOn
    /\ isAutoMode
    /\ ~isPaused
    /\ winnerPlayers(roomPlayers[Host]) # {}
    /\ countdown < autoInterval(room)
    /\ Len(called_numbers) > Len(MiddleRow(Caller))

----------------------------------------------------------------------------
(* Properties of a demo room *)

\* the bots of the demo room
Bots == 1..(Human - 1)

\* in a step that writes the row of the bot, the bot is a winner afterwards
\* exactly when it was one before or checkWin reports a win for its card and
\* the marked numbers written
DeclaredOnWin(b) ==
    playerRows'[b] # playerRows[b] =>
        (playerRows'[b].is_winner <=>
            \/ playerRows[b].is_winner
            \/ checkWin(playerRows'[b].card, playerRows'[b].marked_numbers).hasWin)

----------------------------------------------------------------------------
(* Properties of joinRoom *)

\* joinRoom has been called
JoinCalled == joinOutcome # NotCalled

\* attempt k finds the room open to new players
FoundOpen(k) ==
    /\ joinCall.fetches[k] # NotFound
    /\ ~roomClosed(joinCall.fetches[k])

\* no attempt finds the room open, and the last finds no room
NotFoundAfterRetries ==
    /\ \A k \in 1..maxRetries : ~FoundOpen(k)
    /\ joinCall.fetches[maxRetries] = NotFound

\* no attempt finds the room open, and the last finds it closed
ClosedAfterRetries ==
    /\ \A k \in 1..maxRetries : ~FoundOpen(k)
    /\ joinCall.fetches[maxRetries] # NotFound

\* the first attempt that finds the room open finds it cancelled or finished
CancelledOrFinished ==
    \E k \in 1..maxRetries :
        /\ FoundOpen(k)
        /\ \A j \in 1..(k - 1) : ~FoundOpen(j)
        /\ joinCall.fetches[k].status \in {"cancelled", "finished"}

\* a player of the room has the name
NameTaken == joinCall.playerName \in joinCall.names

AllRunsCompleted ==
    /\ Len(botRuns) = Len(called_numbers) - Len(DemoCalledAtFirst)
    /\ \A r \in DOMAIN botRuns :
          /\ botRuns[r].started
          /\ botRuns[r].next > Len(botRuns[r].bots)
          /\ botRuns[r].awaits \notin finishing

\* C26: once autoBotMarkNumber has completed for every called number, every
\* bot that is not a winner has in its stored marked_numbers every called
\* number of its card, and no number twice
C26_BotsMarkEveryCalledNumber ==
    AllRunsCompleted =>
        \A b \in Bots :
            ~playerRows[b].is_winner =>
                /\ \A n \in SetOf(called_numbers) \cap CardNumbers(playerRows[b].card) :
                      n \in SetOf(playerRows[b].marked_numbers)
                /\ NoDuplicates(playerRows[b].marked_numbers)

----------------------------------------------------------------------------
(* Properties of the grid and of the classifiers as functions *)

\* the positions of the grid that hold the value
CellsOf(grid, value) ==
    {<<row, col>> \in (0..4) \X (0..4) : grid[row][col] = value}

\* C27: the grid built from a valid card has WILD at row 2, column 2 and
\* nowhere else; column j of the grid holds the numbers of column j of the
\* card in stored order, the four N numbers at rows 0, 1, 3 and 4; each of
\* the 24 numbers of the card is in exactly one cell
C27_GridOfCard ==
    card # NullCard =>
        LET grid == cardToArray(card).array
        IN  /\ CellsOf(grid, WILD) = {<<2, 2>>}
            /\ \A col \in {0, 1, 3, 4} : \A row \in 0..4 :
                  grid[row][col] = card[Columns[col + 1]][row + 1]
            /\ \A k \in 1..4 :
                  grid[IF k <= 2 THEN k - 1 ELSE k][2] = card.N[k]
            /\ Cardinality(CardNumbers(card)) = 24
            /\ \A n \in CardNumbers(card) : Cardinality(CellsOf(grid, n)) = 1

\* the card of seed 0 is generated; its last N number is at row 4
C27_Witness ==
    /\ card # NullCard
    /\ card.N = <<33, 34, 41, 42>>
    /\ cardToArray(card).array[4][2] = 42
    /\ cardToArray(card).array[2][2] = WILD

\* the numbers of the card that are not marked
UnmarkedOnCard == CardNumbers(card) \ Marked

\* marking the number as well makes checkWin report a win
CompletesWin(n) == checkWin(card, Append(markedNumbers, n)).hasWin

\* C28: for a valid card and a marked set for which checkWin reports no win,
\* isCloseToWin returns true exactly when there is a single unmarked number
\* of the card whose addition to the marked set makes checkWin report a win
C28_CloseIffOneNumberWins ==
    (WinCalled /\ CloseCalled /\ ~winCheck.hasWin) =>
        (closeToWin.result <=> \E n \in UnmarkedOnCard : CompletesWin(n))

\* no win with three marks, and a fourth number completes a line
C28_Witness ==
    /\ WinCalled /\ CloseCalled
    /\ ~winCheck.hasWin
    /\ closeToWin.result
    /\ Len(markedNumbers) = 3
    /\ \E n \in UnmarkedOnCard : CompletesWin(n)

\* C29: when checkWin reports a win for the marked set S of a card and
\* every number of S is in T, it reports a win for T; so once a player whose
\* marks only grow has a win, every later check reports a win
C29_WinIsMonotone ==
    [][(WinCalled /\ winCheck.hasWin /\ Marked \subseteq SetOf(markedNumbers'))
          => winCheck'.hasWin]_vars

\* a win is reported for a line and eight more numbers
C29_Witness ==
    /\ WinCalled
    /\ winCheck.hasWin
    /\ Cardinality(Marked) >= 8
    /\ \E line \in AllLines :
          Complete(line) /\ Marked # LineNumbers(card, line)

====
